---- MODULE Spec2Model ----
(***************************************************************************)
(* WolfpackTrend: the target-volatility portfolio construction engine      *)
(* (src/risk/portfolio.py), the signal-strength execution model and its    *)
(* stale-order canceller (src/execution/execution.py), the pure helpers    *)
(* they use (src/core/math_utils.py, src/core/formatting.py) and the       *)
(* algorithm that wires them together (src/main.py).                       *)
(*                                                                         *)
(* Numbers.  Weights are exact rationals [n, d] in lowest terms, so the    *)
(* normalise / scale / cap pipeline is computed without rounding.  Daily   *)
(* returns and the annualised volatility are held in basis points          *)
(* (1/10000); a square root is taken to the basis point.                   *)
(***************************************************************************)
EXTENDS Integers, Sequences, FiniteSets, TLC

\* ------------------------------------------------------------------------
\* Bounds of the model
\* ------------------------------------------------------------------------
\* number of calendar dates the host steps through
MaxDays == 3
\* number of orders the execution model may place
MaxOrders == 2
\* number of CreateTargets calls on one date
MaxCalls == 1
\* dates and calls on one date when the engine is checked alone
EngineDays == 3
EngineCalls == 1

\* ------------------------------------------------------------------------
\* Exact rational arithmetic
\* ------------------------------------------------------------------------
Abs(x) == IF x < 0 THEN -x ELSE x

RECURSIVE GCD(_, _)
GCD(a, b) == IF b = 0 THEN a ELSE GCD(b, a % b)

Rat(n, d) ==
    LET g == GCD(Abs(n), Abs(d))
        s == IF d < 0 THEN -1 ELSE 1
    IN  [n |-> s * (n \div g), d |-> s * (d \div g)]

RZero == [n |-> 0, d |-> 1]
ROne == [n |-> 1, d |-> 1]
RMul(a, b) ==
    LET g1 == GCD(Abs(a.n), b.d)
        g2 == GCD(Abs(b.n), a.d)
    IN  [n |-> (a.n \div g1) * (b.n \div g2), d |-> (a.d \div g2) * (b.d \div g1)]
RAdd(a, b) ==
    LET g == GCD(a.d, b.d)
    IN  Rat(a.n * (b.d \div g) + b.n * (a.d \div g), (a.d \div g) * b.d)
RSub(a, b) == RAdd(a, [n |-> -b.n, d |-> b.d])
RDiv(a, b) == RMul(a, IF b.n < 0 THEN [n |-> -b.d, d |-> -b.n] ELSE [n |-> b.d, d |-> b.n])
RNeg(a) == [n |-> -a.n, d |-> a.d]
RAbs(a) == [n |-> Abs(a.n), d |-> a.d]
RLt(a, b) == a.n * b.d < b.n * a.d
RLe(a, b) == a.n * b.d <= b.n * a.d
RMin(a, b) == IF RLt(b, a) THEN b ELSE a
RMax(a, b) == IF RLt(a, b) THEN b ELSE a

RECURSIVE RSum(_, _)
\* sum of f[s] over s \in S
RSum(f, S) ==
    IF S = {} THEN RZero
    ELSE LET s == CHOOSE x \in S : TRUE
         IN  RAdd(f[s], RSum(f, S \ {s}))

\* the literal 1e-8 of the source, as 1 / Tiny
Tiny == 100000000
\* x < 1e-8, for x >= 0
BelowTiny(x) == x.n < (x.d + Tiny - 1) \div Tiny
\* x > 1e-8, for x >= 0
AboveTiny(x) == x.n > x.d \div Tiny

\* ------------------------------------------------------------------------
\* core/math_utils.py
\* ------------------------------------------------------------------------
\* round(x): to the nearest integer, a tie to the even one
RoundHalfEven(x) ==
    LET f == x.n \div x.d
        twice == 2 * (x.n % x.d)
    IN  IF twice < x.d THEN f
        ELSE IF twice > x.d THEN f + 1
        ELSE IF f % 2 = 0 THEN f ELSE f + 1

\* round((i / n) ** (1 / front_load_factor), 4) in units of 1/10000, for the
\* three front-load factors the engine builds (2.0, 1.3, 1.0) and n <= 6;
\* for the factor 1.0 also beyond, where it is round(i / n, 4) (no i / n met
\* here is a tie, where the float would decide)
StrongPowers ==
    << <<10000>>, <<7071, 10000>>, <<5774, 8165, 10000>>,
       <<5000, 7071, 8660, 10000>>,
       <<4472, 6325, 7746, 8944, 10000>>,
       <<4082, 5774, 7071, 8165, 9129, 10000>> >>
ModeratePowers ==
    << <<10000>>, <<5867, 10000>>, <<4295, 7321, 10000>>,
       <<3443, 5867, 8015, 10000>>,
       <<2900, 4942, 6751, 8423, 10000>>,
       <<2520, 4295, 5867, 7321, 8691, 10000>> >>
WeakPowers ==
    << <<10000>>, <<5000, 10000>>, <<3333, 6667, 10000>>,
       <<2500, 5000, 7500, 10000>>,
       <<2000, 4000, 6000, 8000, 10000>>,
       <<1667, 3333, 5000, 6667, 8333, 10000>> >>
RoundedPower(i, n, flf) ==
    CASE flf = "2.0" -> StrongPowers[n][i]
      [] flf = "1.3" -> ModeratePowers[n][i]
      [] flf = "1.0" -> IF n <= Len(WeakPowers) THEN WeakPowers[n][i]
                        ELSE RoundHalfEven([n |-> 10000 * i, d |-> n])

\* a schedule whose loop stops one short: range(1, n)
build_scaling_schedule_short(scaling_days, flf) ==
    LET n == IF scaling_days < 1 THEN 1 ELSE scaling_days
    IN  IF n <= 1 THEN <<ROne>>
        ELSE [i \in 1..(n - 1) |->
                IF i = n - 1 THEN ROne ELSE Rat(RoundedPower(i, n, flf), 10000)]

\* build_scaling_schedule: a sequence of n cumulative fractions
build_scaling_schedule(scaling_days, flf) ==
    LET n == IF scaling_days < 1 THEN 1 ELSE scaling_days
    IN  IF n <= 1 THEN <<ROne>>
        ELSE [i \in 1..n |->
                IF i = n THEN ROne ELSE Rat(RoundedPower(i, n, flf), 10000)]

\* integer square root (floor)
RECURSIVE ISqrtIn(_, _, _)
ISqrtIn(v, lo, hi) ==
    IF lo >= hi THEN lo
    ELSE LET mid == (lo + hi + 1) \div 2
         IN  IF mid * mid <= v THEN ISqrtIn(v, mid, hi) ELSE ISqrtIn(v, lo, mid - 1)
ISqrt(v) == ISqrtIn(v, 0, 46340)

RECURSIVE SeqSum(_)
SeqSum(s) == IF s = <<>> THEN 0 ELSE Head(s) + SeqSum(Tail(s))

\* sample variance (n - 1 denominator) of a list of returns in basis points,
\* as a rational in basis points squared
Variance(returns) ==
    LET n == Len(returns)
        total == SeqSum(returns)
        sq == SeqSum([i \in 1..n |-> returns[i] * returns[i]])
    IN  Rat(n * sq - total * total, n * (n - 1))

\* None where the source has a float or None
RNone == [n |-> 0, d |-> 0]

\* an estimate over the symbols that have enough returns, the others left out
estimate_portfolio_vol_partial(weights, rolling_returns_lists, min_obs) ==
    LET have == {s \in DOMAIN weights :
                    /\ s \in DOMAIN rolling_returns_lists
                    /\ Len(rolling_returns_lists[s]) >= min_obs
                    /\ AboveTiny(RAbs(weights[s]))}
        terms == [s \in have |->
                    RMul(RMul(weights[s], weights[s]), Variance(rolling_returns_lists[s]))]
        port_var == RSum(terms, have)
        scaled == 252 * (port_var.n \div port_var.d)
                  + (252 * (port_var.n % port_var.d)) \div port_var.d
    IN  IF have = {} THEN RNone ELSE Rat(ISqrt(scaled), 10000)

\* estimate_portfolio_vol: RNone, or the annualised volatility as a rational
estimate_portfolio_vol(weights, rolling_returns_lists, min_obs) ==
    LET have == {s \in DOMAIN weights :
                    /\ s \in DOMAIN rolling_returns_lists
                    /\ Len(rolling_returns_lists[s]) >= min_obs}
        daily_variances == [s \in have |-> Variance(rolling_returns_lists[s])]
        symbols_with_weight == {s \in DOMAIN weights : AboveTiny(RAbs(weights[s]))}
        terms == [s \in symbols_with_weight |->
                    RMul(RMul(weights[s], weights[s]), daily_variances[s])]
        port_var == RSum(terms, symbols_with_weight)
        \* floor of port_var * 252, in basis points squared
        scaled == 252 * (port_var.n \div port_var.d)
                  + (252 * (port_var.n % port_var.d)) \div port_var.d
    IN  IF ~(symbols_with_weight \subseteq have) THEN RNone
        ELSE Rat(ISqrt(scaled), 10000)

\* apply_per_name_cap
apply_per_name_cap(weights, max_weight) ==
    [s \in DOMAIN weights |-> RMax(RNeg(max_weight), RMin(max_weight, weights[s]))]

Gross(weights) == RSum([s \in DOMAIN weights |-> RAbs(weights[s])], DOMAIN weights)
Net(weights) == RSum(weights, DOMAIN weights)

\* a gross step that always rescales to max_gross, also upwards
apply_gross_cap_rescaling(weights, max_gross) ==
    LET gross == Gross(weights)
    IN  IF gross.n > 0
        THEN [s \in DOMAIN weights |-> RMul(weights[s], RDiv(max_gross, gross))]
        ELSE weights

\* apply_gross_cap
apply_gross_cap(weights, max_gross) ==
    LET gross == Gross(weights)
    IN  IF RLt(max_gross, gross)
        THEN [s \in DOMAIN weights |-> RMul(weights[s], RDiv(max_gross, gross))]
        ELSE weights

\* apply_net_cap
apply_net_cap(weights, max_net) ==
    LET net == Net(weights)
    IN  IF RLt(max_net, RAbs(net))
        THEN [s \in DOMAIN weights |-> RMul(weights[s], RDiv(max_net, RAbs(net)))]
        ELSE weights

\* ------------------------------------------------------------------------
\* Partial maps (Python dicts)
\* ------------------------------------------------------------------------
EmptyMap == [k \in {} |-> 0]
Put(f, k, v) == [z \in DOMAIN f \cup {k} |-> IF z = k THEN v ELSE f[z]]
Drop(f, k) == [z \in DOMAIN f \ {k} |-> f[z]]
Get(f, k, default) == IF k \in DOMAIN f THEN f[k] ELSE default

\* ------------------------------------------------------------------------
\* Strings are sequences of characters; dates and order tags
\* (core/formatting.py, strftime('%Y-%m-%d'))
\* ------------------------------------------------------------------------
\* the characters that occur, in ASCII order
CharOrder == <<" ", "-", ".", "0", "1", "2", "3", "4", "5", "6", "7", "8", "9",
               ";", "=", "_", "a", "c", "d", "e", "g", "i", "k", "l", "m", "n",
               "o", "r", "s", "t", "w", "x">>
Ord(c) == CHOOSE i \in 1..Len(CharOrder) : CharOrder[i] = c

RECURSIVE LexLess(_, _)
\* Python's  a < b  on strings
LexLess(a, b) ==
    IF b = <<>> THEN FALSE
    ELSE IF a = <<>> THEN TRUE
    ELSE IF Head(a) = Head(b) THEN LexLess(Tail(a), Tail(b))
    ELSE Ord(Head(a)) < Ord(Head(b))

DigitChar(k) == <<"0", "1", "2", "3", "4", "5", "6", "7", "8", "9">>[k + 1]

RECURSIVE Pad(_, _)
\* v in decimal, zero-padded to width w
Pad(v, w) == IF w = 0 THEN <<>> ELSE Append(Pad(v \div 10, w - 1), DigitChar(v % 10))

RECURSIVE Dec(_)
\* str(v) for an integer v >= 0
Dec(v) == IF v < 10 THEN <<DigitChar(v)>> ELSE Append(Dec(v \div 10), DigitChar(v % 10))

\* a date written day first
strftime_day_first(date) == Pad(date.d, 2) \o <<"-">> \o Pad(date.m, 2) \o <<"-">> \o Pad(date.y, 4)

\* date.strftime('%Y-%m-%d')
strftime(date) == Pad(date.y, 4) \o <<"-">> \o Pad(date.m, 2) \o <<"-">> \o Pad(date.d, 2)

\* f"{x:.4f}" for a rational 0 <= x
Format4f(r) ==
    LET v == (2 * r.n * 10000 + r.d) \div (2 * r.d)
    IN  Dec(v \div 10000) \o <<".">> \o Pad(v % 10000, 4)

TierChars(tier) ==
    CASE tier = "exit" -> <<"e", "x", "i", "t">>
      [] tier = "strong" -> <<"s", "t", "r", "o", "n", "g">>
      [] tier = "moderate" -> <<"m", "o", "d", "e", "r", "a", "t", "e">>
      [] tier = "weak" -> <<"w", "e", "a", "k">>

WeekIdKey == <<"w", "e", "e", "k", "_", "i", "d", "=">>

\* a tag that always reports scale day 0
build_order_tag_day0(tier, signal_strength, week_id, scale_day) ==
    <<"t", "i", "e", "r", "=">> \o TierChars(tier) \o <<";">>
    \o <<"s", "i", "g", "n", "a", "l", "=">> \o Format4f(signal_strength) \o <<";">>
    \o WeekIdKey \o week_id \o <<";">>
    \o <<"s", "c", "a", "l", "e", "_", "d", "a", "y", "=">> \o Dec(0)

\* build_order_tag
build_order_tag(tier, signal_strength, week_id, scale_day) ==
    <<"t", "i", "e", "r", "=">> \o TierChars(tier) \o <<";">>
    \o <<"s", "i", "g", "n", "a", "l", "=">> \o Format4f(signal_strength) \o <<";">>
    \o WeekIdKey \o week_id \o <<";">>
    \o <<"s", "c", "a", "l", "e", "_", "d", "a", "y", "=">> \o Dec(scale_day)

RECURSIVE Strip(_)
\* str.strip() for blanks
Strip(s) ==
    IF s = <<>> THEN s
    ELSE IF Head(s) = " " THEN Strip(Tail(s))
    ELSE IF s[Len(s)] = " " THEN Strip(SubSeq(s, 1, Len(s) - 1))
    ELSE s

\* extract_week_id_from_tag: re.search(r'week_id=([^;]+)', tag); <<>> stands for None
extract_week_id_from_tag(tag) ==
    LET n == Len(tag)
        k == Len(WeekIdKey)
        starts == {p \in 1..n : /\ p + k <= n
                                /\ SubSeq(tag, p, p + k - 1) = WeekIdKey
                                /\ tag[p + k] # ";"}
    IN  IF starts = {} THEN <<>>
        ELSE LET p == CHOOSE q \in starts : \A o \in starts : q <= o
                 from == p + k
                 stops == {e \in from..n : tag[e] = ";"}
                 to == IF stops = {} THEN n
                       ELSE (CHOOSE e \in stops : \A o \in stops : e <= o) - 1
             IN  Strip(SubSeq(tag, from, to))

\* should_cancel_signal_aware (execution/cancellation.py)
should_cancel_signal_aware(order_week_id, current_week_id) ==
    IF order_week_id = <<>> \/ current_week_id = <<>> THEN FALSE
    ELSE LexLess(order_week_id, current_week_id)

\* ------------------------------------------------------------------------
\* The universe, the inputs and the constructor arguments
\* ------------------------------------------------------------------------
Symbols == {"A", "B"}
\* the order in which dicts and sets of symbols are walked
SymOrder == <<"A", "B">>

\* the calendar dates the host steps through, today being an index into it
Calendar == << [y |-> 2023, m |-> 12, d |-> 29], [y |-> 2024, m |-> 1, d |-> 2],
               [y |-> 2024, m |-> 1, d |-> 9], [y |-> 2024, m |-> 1, d |-> 10],
               [y |-> 2024, m |-> 2, d |-> 1], [y |-> 2024, m |-> 2, d |-> 2] >>

\* TargetVolPortfolioConstructionModel.__init__: the fixed arguments of main.py
target_vol_annual == Rat(10, 100)
rebalance_dead_band == Rat(15, 1000)
vol_lookback == 63
min_obs == 20

\* SignalStrengthExecutionModel.__init__
limit_cancel_after_open_checks == 2

\* _get_scaling_schedule thresholds
StrongThreshold == Rat(7, 10)
ModerateThreshold == Rat(3, 10)
DefaultStrength == Rat(5, 10)

\* the constructor arguments that vary: scaling_days, the rebalance interval
\* and the three caps (the second cap set is tight enough for the gross and
\* the net cap to bind with two symbols)
EngineConfigs ==
    { [scaling_days |-> 1, interval |-> 2,
       max_weight |-> Rat(10, 100), max_gross |-> Rat(150, 100), max_net |-> Rat(50, 100)],
      [scaling_days |-> 2, interval |-> 2,
       max_weight |-> Rat(50, 100), max_gross |-> Rat(60, 100), max_net |-> Rat(20, 100)],
      [scaling_days |-> 3, interval |-> 3,
       max_weight |-> Rat(10, 100), max_gross |-> Rat(150, 100), max_net |-> Rat(50, 100)] }

\* insight weights (magnitudes) and directions the alpha may emit
Insight(dir, tenths) == [dir |-> dir, weight |-> Rat(tenths, 10)]
InsightsOf == [s \in Symbols |->
                 IF s = "A"
                 THEN {Insight("Up", 7), Insight("Down", 7), Insight("Up", 3), Insight("Up", 0)}
                 ELSE {Insight("Up", 7), Insight("Down", 2)}]
InsightSets ==
    UNION {{f \in [D -> UNION {InsightsOf[s] : s \in Symbols}] :
               \A s \in D : f[s] \in InsightsOf[s]} : D \in SUBSET Symbols}

\* actual holding weights (quantity * price / NAV), 0 meaning not invested
HoldingSets == {h \in [Symbols -> {Rat(0, 1), Rat(1, 10), Rat(-1, 10)}] : h["B"].n = 0}

\* return windows after the warm-up (basis points, newest first): A has
\* min_obs returns, B was listed later and is two short of min_obs
Alternating(len, size) == [i \in 1..len |-> IF i % 2 = 0 THEN size ELSE -size]
WarmWindows == [s \in Symbols |-> IF s = "A" THEN Alternating(min_obs, 30)
                                  ELSE Alternating(min_obs - 2, 100)]

\* ------------------------------------------------------------------------
\* State
\* ------------------------------------------------------------------------
VARIABLES
    \* TargetVolPortfolioConstructionModel: constructor arguments
    scaling_days, rebalance_interval_trading_days, max_weight, max_gross, max_net,
    \* TargetVolPortfolioConstructionModel: fields
    symbols, rolling_returns, prev_close, expected_prices, weekly_targets,
    signal_strengths, symbol_scale_state, trading_days_since_rebalance,
    is_rebalance_day, current_week_id, week_plan, last_cancel_check_date,
    previous_weekly_targets, last_classifications,
    \* SignalStrengthExecutionModel: fields
    open_limit_tickets, limit_open_checks, market_price_at_submit, order_week_ids,
    \* the host: the date, the securities and their prices, the broker's
    \* orders, the position in the pipeline and the targets handed on
    today, securities, orders, pc, targets,
    \* what the handlers did: the steps run on this date, in order, and
    \* the locals of the last CreateTargets call
    steps, tick

cfgVars == <<scaling_days, rebalance_interval_trading_days, max_weight, max_gross, max_net>>
returnVars == <<symbols, rolling_returns, prev_close>>
targetVars == <<weekly_targets, signal_strengths, symbol_scale_state,
                trading_days_since_rebalance, week_plan,
                previous_weekly_targets, last_classifications>>
pcmVars == <<returnVars, targetVars, expected_prices, is_rebalance_day,
             current_week_id, last_cancel_check_date>>
execVars == <<open_limit_tickets, limit_open_checks, market_price_at_submit, order_week_ids>>
hostVars == <<today, securities, orders, pc, targets>>
vars == <<cfgVars, pcmVars, execVars, hostVars, steps, tick>>

\* trading_days_since_rebalance = None
NoCount == -1
\* last_cancel_check_date = None
NoDate == 0
\* current_week_id = None, and any other absent string
NoString == <<>>

NoTick == [kind |-> "none", total_abs |-> RZero, normalized |-> EmptyMap,
           vol |-> RNone, pre_cap |-> EmptyMap,
           prior_targets |-> EmptyMap, prior_state |-> EmptyMap,
           old_targets |-> EmptyMap, actual_weights |-> EmptyMap]

InitWith(configs, windows) ==
    /\ \E c \in configs :
          /\ scaling_days = (IF c.scaling_days < 1 THEN 1 ELSE c.scaling_days)
          /\ rebalance_interval_trading_days = (IF c.interval < 1 THEN 1 ELSE c.interval)
          /\ max_weight = c.max_weight
          /\ max_gross = c.max_gross
          /\ max_net = c.max_net
    /\ symbols = Symbols
    /\ rolling_returns \in windows
    /\ prev_close = [s \in {z \in Symbols : rolling_returns[z] # <<>>} |-> 100]
    /\ expected_prices = EmptyMap
    /\ weekly_targets = EmptyMap
    /\ signal_strengths = EmptyMap
    /\ symbol_scale_state = EmptyMap
    /\ trading_days_since_rebalance = NoCount
    /\ is_rebalance_day = FALSE
    /\ current_week_id = NoString
    /\ week_plan = EmptyMap
    /\ last_cancel_check_date = NoDate
    /\ previous_weekly_targets = EmptyMap
    /\ last_classifications = EmptyMap
    /\ open_limit_tickets = <<>>
    /\ limit_open_checks = EmptyMap
    /\ market_price_at_submit = EmptyMap
    /\ order_week_ids = EmptyMap
    /\ today = 1
    /\ securities = [s \in Symbols |-> 100]
    /\ orders = EmptyMap
    /\ pc = "open"
    /\ targets = <<>>
    /\ steps = <<>>
    /\ tick = NoTick

\* the system as main.py wires it, on a shortened scaling and rebalance cycle
Init ==
    InitWith({[scaling_days |-> 2, interval |-> 2, max_weight |-> Rat(10, 100),
               max_gross |-> Rat(150, 100), max_net |-> Rat(50, 100)]},
             {WarmWindows})

\* ------------------------------------------------------------------------
\* risk/portfolio.py
\* ------------------------------------------------------------------------
strong_schedule == build_scaling_schedule(scaling_days, "2.0")
moderate_schedule == build_scaling_schedule(scaling_days, "1.3")
weak_schedule == build_scaling_schedule(scaling_days, "1.0")

\* a choice of schedule with the thresholds themselves excluded
get_scaling_schedule_strict(signal_strength) ==
    IF RLt(StrongThreshold, signal_strength) THEN strong_schedule
    ELSE IF RLt(ModerateThreshold, signal_strength) THEN moderate_schedule
    ELSE weak_schedule

\* _get_scaling_schedule
get_scaling_schedule(signal_strength) ==
    IF RLe(StrongThreshold, signal_strength) THEN strong_schedule
    ELSE IF RLe(ModerateThreshold, signal_strength) THEN moderate_schedule
    ELSE weak_schedule

\* a window that never drops a return
WindowAdd_growing(window, value, size) == <<value>> \o window

\* RollingWindow.Add: newest first, the oldest dropped beyond the size
WindowAdd(window, value, size) ==
    LET w == <<value>> \o window
    IN  IF Len(w) > size THEN SubSeq(w, 1, size) ELSE w

\* _track_symbol, for a set of symbols: the new return windows
TrackedWindows(rr, D) == [s \in DOMAIN rr \cup D |-> IF s \in DOMAIN rr THEN rr[s] ELSE <<>>]

\* close / prev_close - 1.0, in basis points
DailyReturn(close, prev) == ((close - prev) * 10000) \div prev

\* _estimate_portfolio_vol
pcm_estimate_portfolio_vol(weights, rr) ==
    LET usable == {s \in DOMAIN weights : s \in DOMAIN rr /\ Len(rr[s]) >= min_obs}
    IN  estimate_portfolio_vol(weights, [s \in usable |-> rr[s]], min_obs)

\* _get_actual_weights (NAV > 0): the weights of the tracked symbols invested
get_actual_weights(tracked, holdings) ==
    [s \in {z \in tracked : holdings[z] # RZero} |-> holdings[s]]

\* the vol-scaled weights the caps are applied to
ScaledWeights(weights, vol_annual) ==
    IF vol_annual # RNone /\ AboveTiny(vol_annual)
    THEN [s \in DOMAIN weights |-> RMul(weights[s], RDiv(target_vol_annual, vol_annual))]
    ELSE weights

\* the three caps in their order: per-name, gross, net
ApplyCaps(weights, mw, mg, mn) ==
    apply_net_cap(apply_gross_cap(apply_per_name_cap(weights, mw), mg), mn)

\* a degenerate signal set that leaves the targets of the last cycle in place
compute_weekly_targets_keeping(active_insights, rr) ==
    LET raw_weights == [s \in DOMAIN active_insights |->
                          IF active_insights[s].dir = "Up"
                          THEN active_insights[s].weight
                          ELSE RNeg(active_insights[s].weight)]
        total_abs == Gross(raw_weights)
    IN  IF BelowTiny(total_abs)
        THEN [weekly_targets |-> weekly_targets, signal_strengths |-> signal_strengths,
              total_abs |-> total_abs, normalized |-> EmptyMap,
              vol |-> RNone, pre_cap |-> EmptyMap]
        ELSE LET weights == [s \in DOMAIN raw_weights |-> RDiv(raw_weights[s], total_abs)]
                 vol_annual == pcm_estimate_portfolio_vol(weights, rr)
                 scaled == ScaledWeights(weights, vol_annual)
             IN  [weekly_targets |-> ApplyCaps(scaled, max_weight, max_gross, max_net),
                  signal_strengths |-> [s \in DOMAIN active_insights |-> active_insights[s].weight],
                  total_abs |-> total_abs, normalized |-> weights,
                  vol |-> vol_annual, pre_cap |-> scaled]

\* _compute_weekly_targets on the latest active insight of each symbol
compute_weekly_targets(active_insights, rr) ==
    LET raw_weights == [s \in DOMAIN active_insights |->
                          IF active_insights[s].dir = "Up"
                          THEN active_insights[s].weight
                          ELSE RNeg(active_insights[s].weight)]
        total_abs == Gross(raw_weights)
    IN  IF BelowTiny(total_abs)
        THEN [weekly_targets |-> EmptyMap, signal_strengths |-> EmptyMap,
              total_abs |-> total_abs, normalized |-> EmptyMap,
              vol |-> RNone, pre_cap |-> EmptyMap]
        ELSE LET weights == [s \in DOMAIN raw_weights |-> RDiv(raw_weights[s], total_abs)]
                 vol_annual == pcm_estimate_portfolio_vol(weights, rr)
                 scaled == ScaledWeights(weights, vol_annual)
             IN  [weekly_targets |-> ApplyCaps(scaled, max_weight, max_gross, max_net),
                  signal_strengths |-> [s \in DOMAIN active_insights |-> active_insights[s].weight],
                  total_abs |-> total_abs, normalized |-> weights,
                  vol |-> vol_annual, pre_cap |-> scaled]

\* no target vector: the locals of a call that does not rebalance
NoTargets == [weekly_targets |-> EmptyMap, signal_strengths |-> EmptyMap,
              total_abs |-> RZero, normalized |-> EmptyMap,
              vol |-> RNone, pre_cap |-> EmptyMap]

\* a label that never treats an untargeted holding as a flip
Classification_no_unplanned_flip(s, new_targets, old_targets, actual_weights, dead_band) ==
    LET new_w == Get(new_targets, s, RZero)
        old_w == Get(old_targets, s, RZero)
        actual_w == Get(actual_weights, s, RZero)
        has_new_target == s \in DOMAIN new_targets
        was_targeted == s \in DOMAIN old_targets
        is_held == AboveTiny(RAbs(actual_w))
    IN  IF has_new_target /\ ~was_targeted /\ ~is_held THEN "NEW_ENTRY"
        ELSE IF has_new_target /\ ~was_targeted /\ is_held THEN "RESIZE"
        ELSE IF ~has_new_target /\ (was_targeted \/ is_held) THEN "EXIT"
        ELSE IF ~has_new_target /\ ~was_targeted /\ ~is_held THEN ""
        ELSE IF (new_w.n > 0) # (old_w.n > 0) THEN "FLIP"
        ELSE IF RLe(RAbs(RSub(new_w, actual_w)), dead_band) THEN "HOLD"
        ELSE "RESIZE"

\* a label that also looks at the label the engine stored last time: a
\* symbol labelled NEW_ENTRY before is not a new entry again
Classification_remembering(s, new_targets, old_targets, actual_weights, dead_band) ==
    LET new_w == Get(new_targets, s, RZero)
        old_w == Get(old_targets, s, RZero)
        actual_w == Get(actual_weights, s, RZero)
        has_new_target == s \in DOMAIN new_targets
        was_targeted == s \in DOMAIN old_targets
        is_held == AboveTiny(RAbs(actual_w))
    IN  IF has_new_target /\ ~was_targeted /\ ~is_held
        THEN (IF Get(last_classifications, s, "") = "NEW_ENTRY" THEN "RESIZE" ELSE "NEW_ENTRY")
        ELSE IF has_new_target /\ ~was_targeted /\ is_held
             THEN (IF (actual_w.n > 0) # (new_w.n > 0) THEN "FLIP" ELSE "RESIZE")
        ELSE IF ~has_new_target /\ (was_targeted \/ is_held) THEN "EXIT"
        ELSE IF ~has_new_target /\ ~was_targeted /\ ~is_held THEN ""
        ELSE IF (new_w.n > 0) # (old_w.n > 0) THEN "FLIP"
        ELSE IF RLe(RAbs(RSub(new_w, actual_w)), dead_band) THEN "HOLD"
        ELSE "RESIZE"

\* the label _classify_symbols gives one symbol, "" where it gives none
Classification(s, new_targets, old_targets, actual_weights, dead_band) ==
    LET new_w == Get(new_targets, s, RZero)
        old_w == Get(old_targets, s, RZero)
        actual_w == Get(actual_weights, s, RZero)
        has_new_target == s \in DOMAIN new_targets
        was_targeted == s \in DOMAIN old_targets
        is_held == AboveTiny(RAbs(actual_w))
    IN  IF has_new_target /\ ~was_targeted /\ ~is_held THEN "NEW_ENTRY"
        ELSE IF has_new_target /\ ~was_targeted /\ is_held
             THEN (IF (actual_w.n > 0) # (new_w.n > 0) THEN "FLIP" ELSE "RESIZE")
        ELSE IF ~has_new_target /\ (was_targeted \/ is_held) THEN "EXIT"
        ELSE IF ~has_new_target /\ ~was_targeted /\ ~is_held THEN ""
        ELSE IF (new_w.n > 0) # (old_w.n > 0) THEN "FLIP"
        ELSE IF RLe(RAbs(RSub(new_w, actual_w)), dead_band) THEN "HOLD"
        ELSE "RESIZE"

\* _classify_symbols
classify_symbols(new_targets, old_targets, actual_weights, dead_band) ==
    LET all_symbols == DOMAIN new_targets \cup DOMAIN old_targets \cup DOMAIN actual_weights
        labelled == {s \in all_symbols :
                        Classification(s, new_targets, old_targets, actual_weights, dead_band) # ""}
    IN  [s \in labelled |-> Classification(s, new_targets, old_targets, actual_weights, dead_band)]

\* the loop of _classify_symbols over all_symbols taken in a given order
RECURSIVE classify_loop(_, _, _, _, _, _)
classify_loop(order, classifications, new_targets, old_targets, actual_weights, dead_band) ==
    IF order = <<>> THEN classifications
    ELSE LET label == Classification(Head(order), new_targets, old_targets,
                                     actual_weights, dead_band)
         IN  classify_loop(Tail(order),
                           IF label = "" THEN classifications
                           ELSE Put(classifications, Head(order), label),
                           new_targets, old_targets, actual_weights, dead_band)

\* the orders in which a set may be iterated
Orderings(S) ==
    {order \in [1..Cardinality(S) -> S] : \A i, j \in DOMAIN order : i # j => order[i] # order[j]}

\* a state update in which EXIT leaves the symbol's state in the map
RebalanceScaleState_exit_kept(state, classifications) ==
    [s \in {z \in DOMAIN state \cup DOMAIN classifications :
                z \in DOMAIN state \/ classifications[z] # "EXIT"} |->
        IF s \notin DOMAIN classifications \/ classifications[s] = "EXIT" THEN state[s]
        ELSE IF classifications[s] \in {"NEW_ENTRY", "FLIP"}
             THEN [scale_day |-> 0, is_scaling |-> TRUE]
        ELSE [scale_day |-> 0, is_scaling |-> FALSE]]

\* a state update that writes no state for RESIZE
RebalanceScaleState_resize_skipped(state, classifications) ==
    LET kept == {s \in DOMAIN state \cup DOMAIN classifications :
                    /\ ~(s \in DOMAIN classifications /\ classifications[s] = "EXIT")
                    /\ ~(s \in DOMAIN classifications /\ classifications[s] = "RESIZE"
                            /\ s \notin DOMAIN state)}
    IN  [s \in kept |->
            IF s \notin DOMAIN classifications \/ classifications[s] = "RESIZE" THEN state[s]
            ELSE IF classifications[s] \in {"NEW_ENTRY", "FLIP"}
                 THEN [scale_day |-> 0, is_scaling |-> TRUE]
            ELSE [scale_day |-> 0, is_scaling |-> FALSE]]

\* a state update in which HOLD leaves the symbol's state as it was
RebalanceScaleState_hold_untouched(state, classifications) ==
    LET kept == {s \in DOMAIN state \cup DOMAIN classifications :
                    ~(s \in DOMAIN classifications /\ classifications[s] = "EXIT")}
    IN  [s \in kept |->
            IF s \notin DOMAIN classifications THEN state[s]
            ELSE IF classifications[s] \in {"NEW_ENTRY", "FLIP"}
                 THEN [scale_day |-> 0, is_scaling |-> TRUE]
            ELSE IF classifications[s] = "HOLD" /\ s \in DOMAIN state THEN state[s]
            ELSE [scale_day |-> 0, is_scaling |-> FALSE]]

\* step 4 of a rebalance: the scale state of each classified symbol
RebalanceScaleState(state, classifications) ==
    LET kept == {s \in DOMAIN state \cup DOMAIN classifications :
                    ~(s \in DOMAIN classifications /\ classifications[s] = "EXIT")}
    IN  [s \in kept |->
            IF s \notin DOMAIN classifications THEN state[s]
            ELSE IF classifications[s] \in {"NEW_ENTRY", "FLIP"}
                 THEN [scale_day |-> 0, is_scaling |-> TRUE]
            ELSE [scale_day |-> 0, is_scaling |-> FALSE]]

\* an advance that counts the days on without a ceiling
AdvanceScaleState_unbounded(state) ==
    [s \in DOMAIN state |->
        IF state[s].is_scaling THEN [state[s] EXCEPT !.scale_day = @ + 1] ELSE state[s]]

\* a non-rebalance day: every scaling symbol moves one day on, or completes
AdvanceScaleState(state) ==
    [s \in DOMAIN state |->
        IF state[s].is_scaling
        THEN (IF state[s].scale_day < scaling_days - 1
              THEN [state[s] EXCEPT !.scale_day = @ + 1]
              ELSE [state[s] EXCEPT !.is_scaling = FALSE])
        ELSE state[s]]

\* _initialize_week_plan (NAV > 0)
initialize_week_plan(new_targets, holdings) ==
    LET invested_symbols == {s \in DOMAIN holdings : holdings[s] # RZero}
    IN  [s \in DOMAIN new_targets \cup invested_symbols |->
            [start_w |-> holdings[s], weekly_target_w |-> Get(new_targets, s, RZero)]]

NoState == [scale_day |-> 0, is_scaling |-> FALSE]

RECURSIVE FlattenFrom(_, _)
\* the lists f[s], joined in the order the symbols are walked
FlattenFrom(f, i) ==
    IF i > Len(SymOrder) THEN <<>> ELSE f[SymOrder[i]] \o FlattenFrom(f, i + 1)

\* a step 5 that closes only the flips
ExitTargets_flip_only(classifications) ==
    FlattenFrom([s \in Symbols |->
        IF s \in DOMAIN classifications /\ classifications[s] = "FLIP"
        THEN <<[symbol |-> s, weight |-> RZero]>> ELSE <<>>], 1)

\* step 5 of a rebalance: the 0% instruction of every EXIT and FLIP symbol
ExitTargets(classifications) ==
    FlattenFrom([s \in Symbols |->
        IF s \in DOMAIN classifications /\ classifications[s] \in {"EXIT", "FLIP"}
        THEN <<[symbol |-> s, weight |-> RZero]>> ELSE <<>>], 1)

\* the instruction the emission loop gives one symbol of weekly_targets
\* an emission that also restates the full weight of a symbol that is not
\* scaling on a day without rebalance
EmitOne_restating(s, final_weight, state, strengths, is_rebalance_today, classifications) ==
    LET flip_symbols == {z \in DOMAIN classifications : classifications[z] = "FLIP"}
        st == Get(state, s, NoState)
        schedule == get_scaling_schedule(Get(strengths, s, DefaultStrength))
        last == Len(schedule) - 1
        day_idx == IF st.scale_day < last THEN st.scale_day ELSE last
    IN  IF is_rebalance_today /\ s \in flip_symbols THEN <<>>
        ELSE IF st.is_scaling
             THEN <<[symbol |-> s, weight |-> RMul(final_weight, schedule[day_idx + 1])]>>
        ELSE IF ~is_rebalance_today \/ Get(classifications, s, "") = "RESIZE"
             THEN <<[symbol |-> s, weight |-> final_weight]>>
        ELSE <<>>

\* an emission that does not skip the flips on the rebalance day
EmitOne_flip_entry(s, final_weight, state, strengths, is_rebalance_today, classifications) ==
    LET st == Get(state, s, NoState)
        schedule == get_scaling_schedule(Get(strengths, s, DefaultStrength))
        last == Len(schedule) - 1
        day_idx == IF st.scale_day < last THEN st.scale_day ELSE last
    IN  IF st.is_scaling
        THEN <<[symbol |-> s, weight |-> RMul(final_weight, schedule[day_idx + 1])]>>
        ELSE IF is_rebalance_today /\ Get(classifications, s, "") = "RESIZE"
             THEN <<[symbol |-> s, weight |-> final_weight]>>
        ELSE <<>>

\* an emission that stays at the first fraction of the schedule
EmitOne_first_fraction(s, final_weight, state, strengths, is_rebalance_today, classifications) ==
    LET flip_symbols == {z \in DOMAIN classifications : classifications[z] = "FLIP"}
        st == Get(state, s, NoState)
        schedule == get_scaling_schedule(Get(strengths, s, DefaultStrength))
    IN  IF is_rebalance_today /\ s \in flip_symbols THEN <<>>
        ELSE IF st.is_scaling
             THEN <<[symbol |-> s, weight |-> RMul(final_weight, schedule[1])]>>
        ELSE IF is_rebalance_today /\ Get(classifications, s, "") = "RESIZE"
             THEN <<[symbol |-> s, weight |-> final_weight]>>
        ELSE <<>>

\* one pass of the emission loop
EmitOne(s, final_weight, state, strengths, is_rebalance_today, classifications) ==
    LET flip_symbols == {z \in DOMAIN classifications : classifications[z] = "FLIP"}
        st == Get(state, s, NoState)
        schedule == get_scaling_schedule(Get(strengths, s, DefaultStrength))
        last == Len(schedule) - 1
        day_idx == IF st.scale_day < last THEN st.scale_day ELSE last
    IN  IF is_rebalance_today /\ s \in flip_symbols THEN <<>>
        ELSE IF st.is_scaling
             THEN <<[symbol |-> s, weight |-> RMul(final_weight, schedule[day_idx + 1])]>>
        ELSE IF is_rebalance_today /\ Get(classifications, s, "") = "RESIZE"
             THEN <<[symbol |-> s, weight |-> final_weight]>>
        ELSE <<>>

\* the emission loop over weekly_targets
EmitTargets(new_targets, state, strengths, is_rebalance_today, classifications) ==
    FlattenFrom([s \in Symbols |->
        IF s \in DOMAIN new_targets
        THEN EmitOne(s, new_targets[s], state, strengths, is_rebalance_today, classifications)
        ELSE <<>>], 1)

\* ------------------------------------------------------------------------
\* execution/execution.py
\* ------------------------------------------------------------------------
\* a status test that also lets through an order waiting for its cancel
OpenStatuses_or_pending == {"Submitted", "PartiallyFilled", "CancelPending"}
\* the statuses in which the code sends a cancel request
OpenStatuses == {"Submitted", "PartiallyFilled"}
TerminalStatuses == {"Filled", "Canceled", "Invalid"}

\* the execution model's bookkeeping and the broker's orders, as one value
ExecState == [tickets |-> open_limit_tickets, checks |-> limit_open_checks,
              prices |-> market_price_at_submit, week_ids |-> order_week_ids,
              orders |-> orders]
\* deletions that delete nothing
DropAll_nothing(f, ids) == f

\* del of the entries of the orders ids
DropAll(f, ids) == [z \in DOMAIN f \ ids |-> f[z]]

\* cancel requests that do not show in the status of the ticket
CancelRequested_unseen(ords, ids) ==
    [i \in DOMAIN ords |->
        IF i \in ids THEN [ords[i] EXCEPT !.cancels = @ + 1] ELSE ords[i]]

\* cancel requests that reach only the orders with no fill yet
CancelRequested_unfilled_only(ords, ids) ==
    [i \in DOMAIN ords |->
        IF i \in ids /\ ords[i].status = "Submitted"
        THEN [ords[i] EXCEPT !.status = "CancelPending", !.cancels = @ + 1]
        ELSE ords[i]]

\* ticket.Cancel() on each of ids: the request is counted and the order is
\* CancelPending until the broker answers
CancelRequested(ords, ids) ==
    [i \in DOMAIN ords |->
        IF i \in ids
        THEN [ords[i] EXCEPT !.status = "CancelPending", !.cancels = @ + 1]
        ELSE ords[i]]

SeqToSet(q) == {q[i] : i \in 1..Len(q)}
Without(q, ids) == SelectSeq(q, LAMBDA i : i \notin ids)

\* a fallback that cancels at the first check already
cancel_stale_orders_legacy_hasty(e) ==
    LET open == {i \in SeqToSet(e.tickets) : e.orders[i].status \in OpenStatuses}
        counted == [i \in DOMAIN e.checks \cup open |->
                      IF i \in open THEN Get(e.checks, i, 0) + 1 ELSE e.checks[i]]
        stale == {i \in open : counted[i] >= 1}
        after == CancelRequested(e.orders, stale)
        closed == {i \in SeqToSet(e.tickets) : after[i].status \in TerminalStatuses}
    IN  [tickets |-> Without(e.tickets, closed),
         checks |-> DropAll(counted, stale \cup closed),
         prices |-> DropAll(e.prices, stale),
         week_ids |-> DropAll(e.week_ids, stale),
         orders |-> after]

\* _cancel_stale_orders_legacy
cancel_stale_orders_legacy(e) ==
    LET open == {i \in SeqToSet(e.tickets) : e.orders[i].status \in OpenStatuses}
        counted == [i \in DOMAIN e.checks \cup open |->
                      IF i \in open THEN Get(e.checks, i, 0) + 1 ELSE e.checks[i]]
        stale == {i \in open : counted[i] >= limit_cancel_after_open_checks}
        after == CancelRequested(e.orders, stale)
        closed == {i \in SeqToSet(e.tickets) : after[i].status \in TerminalStatuses}
    IN  [tickets |-> Without(e.tickets, closed),
         checks |-> DropAll(counted, stale \cup closed),
         prices |-> DropAll(e.prices, stale),
         week_ids |-> DropAll(e.week_ids, stale),
         orders |-> after]

\* a rule that also takes the orders of the current cycle
IsStale_or_current(order_week_id, cwid) == ~LexLess(cwid, order_week_id)
\* a rule that takes no order
IsStale_never(order_week_id, cwid) == FALSE

\* the week-cycle rule: order_week_id < current_week_id, as strings
IsStale(order_week_id, cwid) == LexLess(order_week_id, cwid)

\* cancel_stale_orders, the engine's current_week_id being cwid
cancel_stale_orders(e, cwid) ==
    IF cwid = NoString THEN cancel_stale_orders_legacy(e)
    ELSE
    LET open == {i \in SeqToSet(e.tickets) : e.orders[i].status \in OpenStatuses}
        untagged == {i \in open : Get(e.week_ids, i, NoString) = NoString}
        counted == [i \in DOMAIN e.checks \cup untagged |->
                      IF i \in untagged THEN Get(e.checks, i, 0) + 1 ELSE e.checks[i]]
        orders_to_cancel ==
            {i \in untagged : counted[i] >= limit_cancel_after_open_checks}
            \cup {i \in open \ untagged : IsStale(e.week_ids[i], cwid)}
    IN  [tickets |-> Without(e.tickets, orders_to_cancel),
         checks |-> DropAll(counted, orders_to_cancel),
         prices |-> DropAll(e.prices, orders_to_cancel),
         week_ids |-> DropAll(e.week_ids, orders_to_cancel),
         orders |-> CancelRequested(e.orders, orders_to_cancel)]

\* the tier Execute gives an order that is not an exit
TierOf(signal_strength) ==
    IF RLe(StrongThreshold, signal_strength) THEN "strong"
    ELSE IF RLe(ModerateThreshold, signal_strength) THEN "moderate"
    ELSE "weak"

\* what Execute may find for one target: nothing left to order, an order
\* that closes the position, a buy from no position, a sell of half the
\* position, and two sells at the 1% boundary of an exit
ExecChoices == {"skip", "exit", "buy", "sell", "trim", "reduce"}
\* holding.Quantity and OrderSizing.GetUnorderedQuantity for each of them
Sizing(choice) ==
    CASE choice = "skip" -> [holding |-> 100, unordered |-> 0]
      [] choice = "exit" -> [holding |-> 100, unordered |-> -100]
      [] choice = "buy" -> [holding |-> 0, unordered |-> 10]
      [] choice = "sell" -> [holding |-> 100, unordered |-> -50]
      [] choice = "trim" -> [holding |-> -1000, unordered |-> 991]
      [] choice = "reduce" -> [holding |-> 100, unordered |-> -99]

\* is_exit: invested, and what the order leaves is under 1% of the position
IsExit(holding, unordered) ==
    holding # 0 /\ Abs(holding + unordered) * 100 < Abs(holding)

\* the limit offset of each tier: strong_offset_pct, moderate_offset_pct,
\* weak_offset_pct as main.py builds the execution model
OffsetOf(tier) ==
    CASE tier = "strong" -> RZero
      [] tier = "moderate" -> Rat(5, 1000)
      [] tier = "weak" -> Rat(15, 1000)

\* security.SymbolProperties.MinimumPriceVariation of a US equity
TickSize == Rat(1, 100)

\* a limit price that puts the offset on the wrong side of the market
compute_limit_price_inverted(price, quantity, offset_pct, tick_size) ==
    LET raw_price == IF quantity > 0
                     THEN RMul(Rat(price, 1), RAdd(ROne, offset_pct))
                     ELSE RMul(Rat(price, 1), RSub(ROne, offset_pct))
    IN  [raw_price |-> raw_price,
         limit_price |-> RMul(Rat(RoundHalfEven(RDiv(raw_price, tick_size)), 1), tick_size)]

\* compute_limit_price (tick_size > 0), with its local raw_price
compute_limit_price(price, quantity, offset_pct, tick_size) ==
    LET raw_price == IF quantity > 0
                     THEN RMul(Rat(price, 1), RSub(ROne, offset_pct))
                     ELSE RMul(Rat(price, 1), RAdd(ROne, offset_pct))
    IN  [raw_price |-> raw_price,
         limit_price |-> RMul(Rat(RoundHalfEven(RDiv(raw_price, tick_size)), 1), tick_size)]

\* bookkeeping that lists a market order like a limit order
track_ticket_every_order(is_exit, e, id, wid) ==
    [e EXCEPT !.tickets = Append(@, id),
              !.checks = Put(@, id, 0),
              !.week_ids = IF wid # NoString THEN Put(@, id, wid) ELSE @]

\* what Execute records beside market_price_at_submit once the ticket is
\* there: nothing for a market order, and for a limit order the ticket, a
\* check count of 0 and the week_id of its tag
track_ticket(is_exit, e, id, wid) ==
    IF is_exit THEN e
    ELSE [e EXCEPT !.tickets = Append(@, id),
                   !.checks = Put(@, id, 0),
                   !.week_ids = IF wid # NoString THEN Put(@, id, wid) ELSE @]

\* one pass of Execute's loop, for target number i; e carries the execution
\* state and the engine's current_week_id
RECURSIVE ExecuteFrom(_, _, _)
ExecuteFrom(i, choice, e) ==
    IF i > Len(targets) THEN e
    ELSE
    LET symbol == targets[i].symbol
        id == Cardinality(DOMAIN e.orders) + 1
        unordered_quantity == Sizing(choice[i]).unordered
        is_exit == IsExit(Sizing(choice[i]).holding, unordered_quantity)
    IN  IF unordered_quantity = 0 \/ id > MaxOrders
        THEN ExecuteFrom(i + 1, choice, e)
        ELSE
        LET price == securities[symbol]
            signal_strength == Get(signal_strengths, symbol, DefaultStrength)
            week_id_val == IF e.cwid = NoString THEN strftime(Calendar[today]) ELSE e.cwid
            scale_day_val == Get(symbol_scale_state, symbol, NoState).scale_day
            tier == IF is_exit THEN "exit" ELSE TierOf(signal_strength)
            priced == IF is_exit THEN [raw_price |-> RNone, limit_price |-> RNone]
                      ELSE compute_limit_price(price, unordered_quantity, OffsetOf(tier), TickSize)
            tag == build_order_tag(tier, signal_strength, week_id_val, scale_day_val)
            wid == extract_week_id_from_tag(tag)
            ticket == [symbol |-> symbol, tier |-> tier,
                       type |-> IF is_exit THEN "Market" ELSE "Limit",
                       quantity |-> unordered_quantity,
                       holding |-> Sizing(choice[i]).holding,
                       market_price |-> price,
                       signal_strength |-> signal_strength,
                       raw_price |-> priced.raw_price,
                       limit_price |-> priced.limit_price,
                       status |-> "Submitted", tag |-> tag, cancels |-> 0]
            placed == [e EXCEPT !.orders = Put(@, id, ticket),
                                !.prices = Put(@, id, price),
                                !.cwid = week_id_val]
        IN  ExecuteFrom(i + 1, choice, track_ticket(is_exit, placed, id, wid))

\* ------------------------------------------------------------------------
\* Actions
\* ------------------------------------------------------------------------
\* every date is a trading day: its time step brings the bars, then the
\* framework pipeline runs
Idle == pc \in {"data", "pipeline"}
\* order events and universe changes reach the algorithm at the start of a
\* time step
Quiet == pc = "open"
CallsToday == Cardinality({i \in 1..Len(steps) : steps[i] = "CreateTargets"})

\* the host moves to the next calendar date
AdvanceDate ==
    /\ Idle
    /\ today < Len(Calendar)
    /\ today' = today + 1
    /\ pc' = "open"
    /\ steps' = <<>>
    /\ UNCHANGED <<cfgVars, pcmVars, execVars, securities, orders, targets, tick>>

\* main.py _cancel_stale_orders: the pass scheduled at the market open
ScheduledCancel ==
    /\ pc = "open"
    /\ \E r \in {cancel_stale_orders(ExecState, current_week_id)} :
           /\ open_limit_tickets' = r.tickets
           /\ limit_open_checks' = r.checks
           /\ market_price_at_submit' = r.prices
           /\ order_week_ids' = r.week_ids
           /\ orders' = r.orders
    /\ last_cancel_check_date' = today
    /\ pc' = "scheduled"
    /\ steps' = Append(steps, "cancel")
    /\ UNCHANGED <<cfgVars, returnVars, targetVars, expected_prices, is_rebalance_day,
                   current_week_id, today, securities, targets, tick>>

\* main.py OnData -> UpdateReturns, bars giving the close of each symbol
\* that has a bar
OnData(bars) ==
    /\ pc \in {"open", "scheduled"}
    /\ LET tracked == symbols \cup DOMAIN bars
           windows == TrackedWindows(rolling_returns, DOMAIN bars)
           fresh == {s \in tracked \cap DOMAIN bars :
                        s \in DOMAIN prev_close /\ prev_close[s] > 0}
       IN  /\ symbols' = tracked
           /\ rolling_returns' =
                 [s \in DOMAIN windows |->
                     IF s \in fresh
                     THEN WindowAdd(windows[s], DailyReturn(bars[s], prev_close[s]), vol_lookback)
                     ELSE windows[s]]
           /\ prev_close' = [s \in DOMAIN prev_close \cup (tracked \cap DOMAIN bars) |->
                                IF s \in DOMAIN bars THEN bars[s] ELSE prev_close[s]]
    /\ securities' = [s \in DOMAIN securities |-> Get(bars, s, securities[s])]
    /\ pc' = "data"
    /\ steps' = Append(steps, "returns")
    /\ UNCHANGED <<cfgVars, targetVars, expected_prices, is_rebalance_day, current_week_id,
                   last_cancel_check_date, execVars, today, orders, targets, tick>>

\* what the alpha did to is_rebalance_day before the call (models/alpha.py
\* Update): set it, cleared it, or did not touch it
AlphaWrites == {"set", "clear", "none"}

\* the steps with the cancellation pass put first
TickSteps_cancel_first(is_rebalance_today, run_cancel) ==
    <<"CreateTargets">>
    \o (IF run_cancel THEN <<"cancel">> ELSE <<>>)
    \o (IF is_rebalance_today THEN <<"classify">> ELSE <<"advance">>)
    \o <<"emit">>

\* the steps of one CreateTargets call that gets past the early returns
TickSteps(is_rebalance_today, run_cancel) ==
    <<"CreateTargets">>
    \o (IF is_rebalance_today THEN <<"classify">> ELSE <<"advance">>)
    \o (IF run_cancel THEN <<"cancel">> ELSE <<>>)
    \o <<"emit">>

\* a guard that lets every call into the pipeline
has_active_insights_always(active_insights) == TRUE

\* portfolio.py 106-111: the call goes on only with an active insight
has_active_insights(active_insights) == DOMAIN active_insights # {}

\* a counter test that lets one more tick pass
counter_rebalance_late(count, interval) == count = NoCount \/ count > interval

\* portfolio.py 113-116: the trading-day counter calls for a rebalance
counter_rebalance(count, interval) == count = NoCount \/ count >= interval

\* a pass on every call, whatever the date of the last one
cancel_check_due_always(last_date, date) == TRUE

\* portfolio.py 184-186: the in-pipeline pass runs when no pass has run yet
\* on this date
cancel_check_due(last_date, date) == last_date # date

\* CreateTargets; active_insights holds the latest active insight of each
\* symbol, holdings the actual weight of each symbol
CreateTargets(alpha_write, active_insights, holdings) ==
    /\ Idle
    /\ DOMAIN active_insights \subseteq DOMAIN securities
    /\ pc' = "execute"
    /\ LET flag == CASE alpha_write = "set" -> TRUE
                     [] alpha_write = "clear" -> FALSE
                     [] OTHER -> is_rebalance_day
       IN
       IF ~has_active_insights(active_insights)
       THEN /\ targets' = <<>>
            /\ is_rebalance_day' = flag
            /\ steps' = Append(steps, "CreateTargets")
            /\ tick' = [NoTick EXCEPT !.kind = "early"]
            /\ UNCHANGED <<cfgVars, returnVars, targetVars, expected_prices, current_week_id,
                           last_cancel_check_date, execVars, today, securities, orders>>
       ELSE
       LET is_rebalance_today ==
               flag \/ counter_rebalance(trading_days_since_rebalance,
                                         rebalance_interval_trading_days)
       IN
       \* rebalance: steps 1 to 3
       \E actual_weights \in {get_actual_weights(symbols, holdings)},
          computed \in {IF is_rebalance_today
                        THEN compute_weekly_targets(active_insights,
                                 TrackedWindows(rolling_returns, DOMAIN active_insights))
                        ELSE NoTargets} :
       \E classifications \in
              {IF is_rebalance_today
               THEN classify_symbols(computed.weekly_targets, previous_weekly_targets,
                                     actual_weights, rebalance_dead_band)
               ELSE EmptyMap} :
       \* the state after the rebalance or the non-rebalance branch
       \E new_targets \in {IF is_rebalance_today THEN computed.weekly_targets
                           ELSE weekly_targets},
          new_strengths \in {IF is_rebalance_today THEN computed.signal_strengths
                             ELSE signal_strengths},
          new_state \in {IF is_rebalance_today
                         THEN RebalanceScaleState(symbol_scale_state, classifications)
                         ELSE AdvanceScaleState(symbol_scale_state)},
          new_week_id \in {IF is_rebalance_today THEN strftime(Calendar[today])
                           ELSE current_week_id},
          \* the once-a-day cancellation pass
          run_cancel \in {cancel_check_due(last_cancel_check_date, today)} :
       \E r \in {IF run_cancel THEN cancel_stale_orders(ExecState, new_week_id)
                 ELSE ExecState},
          emitted \in {(IF is_rebalance_today THEN ExitTargets(classifications) ELSE <<>>)
                       \o EmitTargets(new_targets, new_state, new_strengths,
                                      is_rebalance_today, classifications)} :
           /\ is_rebalance_day' = FALSE
           /\ IF is_rebalance_today
              THEN /\ trading_days_since_rebalance' = 1
                   /\ symbols' = symbols \cup DOMAIN active_insights
                   /\ rolling_returns' = TrackedWindows(rolling_returns, DOMAIN active_insights)
                   /\ week_plan' = initialize_week_plan(new_targets, holdings)
                   /\ last_classifications' = classifications
                   /\ previous_weekly_targets' = new_targets
              ELSE /\ trading_days_since_rebalance' = trading_days_since_rebalance + 1
                   /\ UNCHANGED <<symbols, rolling_returns, week_plan, last_classifications,
                                  previous_weekly_targets>>
           /\ weekly_targets' = new_targets
           /\ signal_strengths' = new_strengths
           /\ symbol_scale_state' = new_state
           /\ current_week_id' = new_week_id
           /\ open_limit_tickets' = r.tickets
           /\ limit_open_checks' = r.checks
           /\ market_price_at_submit' = r.prices
           /\ order_week_ids' = r.week_ids
           /\ orders' = r.orders
           /\ last_cancel_check_date' = today
           /\ targets' = emitted
           /\ expected_prices' =
                 [s \in DOMAIN expected_prices
                        \cup ({emitted[i].symbol : i \in 1..Len(emitted)} \cap DOMAIN securities)
                        \cup (DOMAIN new_targets \cap DOMAIN securities) |->
                     IF s \in DOMAIN securities
                        /\ (s \in DOMAIN new_targets
                            \/ s \in {emitted[i].symbol : i \in 1..Len(emitted)})
                     THEN securities[s] ELSE expected_prices[s]]
           /\ steps' = steps \o TickSteps(is_rebalance_today, run_cancel)
           /\ tick' = [kind |-> IF is_rebalance_today THEN "rebalance" ELSE "scaling",
                        total_abs |-> computed.total_abs,
                        normalized |-> computed.normalized, vol |-> computed.vol,
                        pre_cap |-> computed.pre_cap,
                        prior_targets |-> weekly_targets,
                        prior_state |-> symbol_scale_state,
                        old_targets |-> IF is_rebalance_today THEN previous_weekly_targets
                                        ELSE EmptyMap,
                        actual_weights |-> IF is_rebalance_today THEN actual_weights
                                           ELSE EmptyMap]
           /\ UNCHANGED <<cfgVars, prev_close, today, securities>>

\* an Execute that stamps the engine's week id with the date of every call
Execute_stamping(choice) ==
    /\ pc = "execute"
    /\ \E e \in {ExecuteFrom(1, choice,
                         [tickets |-> open_limit_tickets, checks |-> limit_open_checks,
                          prices |-> market_price_at_submit, week_ids |-> order_week_ids,
                          orders |-> orders, cwid |-> current_week_id])} :
           /\ open_limit_tickets' = e.tickets
           /\ limit_open_checks' = e.checks
           /\ market_price_at_submit' = e.prices
           /\ order_week_ids' = e.week_ids
           /\ orders' = e.orders
    /\ current_week_id' = strftime(Calendar[today])
    /\ pc' = "pipeline"
    /\ targets' = <<>>
    /\ UNCHANGED <<cfgVars, returnVars, targetVars, expected_prices, is_rebalance_day,
                   last_cancel_check_date, today, securities, steps, tick>>

\* Execute on the targets CreateTargets returned; choice gives, for each
\* target, what the sizing finds
Execute(choice) ==
    /\ pc = "execute"
    /\ \E e \in {ExecuteFrom(1, choice,
                         [tickets |-> open_limit_tickets, checks |-> limit_open_checks,
                          prices |-> market_price_at_submit, week_ids |-> order_week_ids,
                          orders |-> orders, cwid |-> current_week_id])} :
           /\ open_limit_tickets' = e.tickets
           /\ limit_open_checks' = e.checks
           /\ market_price_at_submit' = e.prices
           /\ order_week_ids' = e.week_ids
           /\ orders' = e.orders
           /\ current_week_id' = e.cwid
    /\ pc' = "pipeline"
    /\ targets' = <<>>
    /\ UNCHANGED <<cfgVars, returnVars, targetVars, expected_prices, is_rebalance_day,
                   last_cancel_check_date, today, securities, steps, tick>>

\* the statuses the broker may move an order to
NextStatuses(status) ==
    CASE status = "Submitted" -> {"PartiallyFilled", "Filled", "Canceled", "Invalid"}
      [] status = "PartiallyFilled" -> {"Filled", "Canceled"}
      [] status = "CancelPending" -> {"Canceled", "Filled"}
      [] OTHER -> {}

\* the handler of the execution model alone, without main.py's clean-up
HandleOrderEvent_no_cleanup(id, status) ==
    IF status \in TerminalStatuses
    THEN /\ open_limit_tickets' = Without(open_limit_tickets, {id})
         /\ limit_open_checks' = DropAll(limit_open_checks, {id})
         /\ order_week_ids' = DropAll(order_week_ids, {id})
         /\ UNCHANGED market_price_at_submit
    ELSE UNCHANGED execVars

\* handlers that stop tracking an order at its first fill
HandleOrderEvent_on_any_fill(id, status) ==
    IF status \in TerminalStatuses \cup {"PartiallyFilled"}
    THEN /\ open_limit_tickets' = Without(open_limit_tickets, {id})
         /\ limit_open_checks' = DropAll(limit_open_checks, {id})
         /\ order_week_ids' = DropAll(order_week_ids, {id})
         /\ market_price_at_submit' = DropAll(market_price_at_submit, {id})
    ELSE UNCHANGED execVars

\* handlers that drop the oldest ticket, whichever order the event names
HandleOrderEvent_oldest(id, status) ==
    IF status \in TerminalStatuses
    THEN /\ open_limit_tickets' = IF open_limit_tickets = <<>> THEN <<>>
                                  ELSE Tail(open_limit_tickets)
         /\ limit_open_checks' = DropAll(limit_open_checks, {id})
         /\ order_week_ids' = DropAll(order_week_ids, {id})
         /\ market_price_at_submit' = DropAll(market_price_at_submit, {id})
    ELSE UNCHANGED execVars

\* the handlers of an order event with the given status:
\* SignalStrengthExecutionModel.OnOrderEvent, then main.py's clean-up
HandleOrderEvent(id, status) ==
    IF status \in TerminalStatuses
    THEN /\ open_limit_tickets' = Without(open_limit_tickets, {id})
         /\ limit_open_checks' = DropAll(limit_open_checks, {id})
         /\ order_week_ids' = DropAll(order_week_ids, {id})
         /\ market_price_at_submit' = DropAll(market_price_at_submit, {id})
    ELSE UNCHANGED execVars

\* the broker moves an order to a new status and the algorithm is told
OrderEvent(id, status) ==
    /\ Quiet
    /\ id \in DOMAIN orders
    /\ status \in NextStatuses(orders[id].status)
    /\ orders' = [orders EXCEPT ![id].status = status]
    /\ HandleOrderEvent(id, status)
    /\ UNCHANGED <<cfgVars, pcmVars, today, securities, pc, targets, steps, tick>>

\* the same terminal event delivered once more
RepeatedOrderEvent(id) ==
    /\ Quiet
    /\ id \in DOMAIN orders
    /\ orders[id].status \in TerminalStatuses
    /\ HandleOrderEvent(id, orders[id].status)
    /\ UNCHANGED <<cfgVars, pcmVars, today, securities, orders, pc, targets, steps, tick>>

\* a symbol leaves the universe: OnSecuritiesChanged of the engine and of
\* the execution model
SecurityRemoved(symbol) ==
    /\ Quiet
    /\ symbol \in DOMAIN securities
    /\ securities' = Drop(securities, symbol)
    /\ symbols' = symbols \ {symbol}
    /\ rolling_returns' = Drop(rolling_returns, symbol)
    /\ prev_close' = Drop(prev_close, symbol)
    /\ weekly_targets' = Drop(weekly_targets, symbol)
    /\ signal_strengths' = Drop(signal_strengths, symbol)
    /\ week_plan' = Drop(week_plan, symbol)
    /\ symbol_scale_state' = Drop(symbol_scale_state, symbol)
    /\ previous_weekly_targets' = Drop(previous_weekly_targets, symbol)
    /\ last_classifications' = Drop(last_classifications, symbol)
    /\ LET removed_order_ids == {i \in SeqToSet(open_limit_tickets) : orders[i].symbol = symbol}
           open == {i \in removed_order_ids : orders[i].status \in OpenStatuses}
       IN  /\ orders' = CancelRequested(orders, open)
           /\ open_limit_tickets' = Without(open_limit_tickets, removed_order_ids)
           /\ limit_open_checks' = DropAll(limit_open_checks, removed_order_ids)
           /\ order_week_ids' = DropAll(order_week_ids, removed_order_ids)
    /\ UNCHANGED <<cfgVars, trading_days_since_rebalance, expected_prices, is_rebalance_day,
                   current_week_id, last_cancel_check_date, market_price_at_submit,
                   today, pc, targets, steps, tick>>

\* a symbol joins the universe: OnSecuritiesChanged of the engine
SecurityAdded(symbol, price) ==
    /\ Quiet
    /\ symbol \notin DOMAIN securities
    /\ securities' = Put(securities, symbol, price)
    /\ symbols' = symbols \cup {symbol}
    /\ rolling_returns' = TrackedWindows(rolling_returns, {symbol})
    /\ UNCHANGED <<cfgVars, prev_close, targetVars, expected_prices, is_rebalance_day,
                   current_week_id, last_cancel_check_date, execVars,
                   today, orders, pc, targets, steps, tick>>

\* ------------------------------------------------------------------------
\* Specifications
\* ------------------------------------------------------------------------
\* the inputs of the whole system: a few insight sets, holdings and bars
FewInsightSets == { EmptyMap, [s \in {"A"} |-> [dir |-> "Up", weight |-> Rat(7, 10)]] }
FewHoldingSets == { [s \in Symbols |-> RZero] }
\* the day's bars: of the securities in the universe, or of every symbol
BarsOf(D) == [s \in D |-> 101]

Next ==
    \/ today < MaxDays /\ AdvanceDate
    \/ ScheduledCancel
    \/ \E D \in {DOMAIN securities, Symbols} : OnData(BarsOf(D))
    \/ /\ CallsToday < MaxCalls
       /\ \E w \in AlphaWrites, i \in FewInsightSets, h \in FewHoldingSets :
             CreateTargets(w, i, h)
    \/ \E c \in [1..Len(targets) -> ExecChoices] : Execute(c)
    \/ \E id \in 1..MaxOrders, st \in TerminalStatuses \cup {"PartiallyFilled"} : OrderEvent(id, st)
    \/ \E id \in 1..MaxOrders : RepeatedOrderEvent(id)
    \/ \E s \in Symbols : SecurityRemoved(s)
    \/ \E s \in Symbols : SecurityAdded(s, 100)

Spec == Init /\ [][Next]_vars

\* the engine alone, over many signals, holdings and configurations; the
\* sizing of Execute finds nothing to order
InitEngine ==
    InitWith(EngineConfigs,
             {WarmWindows})

NextEngine ==
    \/ today < EngineDays /\ AdvanceDate
    \/ OnData(BarsOf(DOMAIN securities))
    \/ /\ CallsToday < EngineCalls
       /\ \E w \in AlphaWrites, i \in InsightSets, h \in HoldingSets :
             CreateTargets(w, i, h)
    \/ Execute([i \in 1..Len(targets) |-> "skip"])
    \/ \E s \in Symbols : SecurityRemoved(s)

SpecEngine == InitEngine /\ [][NextEngine]_vars

\* the engine under every schedule length: scaling_days 1 to 6 and a very
\* long scale-in, with weak signals (the linear schedule)
ScheduleConfigs ==
    { [scaling_days |-> n, interval |-> 2,
       max_weight |-> Rat(10, 100), max_gross |-> Rat(150, 100), max_net |-> Rat(50, 100)] :
      n \in (1..6) \cup {20001} }
ScheduleInsightSets ==
    { [s \in Symbols |-> IF s = "A" THEN Insight("Down", 2) ELSE Insight("Up", 1)] }

InitSchedule == InitWith(ScheduleConfigs, {WarmWindows})

NextSchedule ==
    \/ today < EngineDays /\ AdvanceDate
    \/ OnData(BarsOf(DOMAIN securities))
    \/ /\ CallsToday < EngineCalls
       /\ \E w \in AlphaWrites, i \in ScheduleInsightSets, h \in FewHoldingSets :
             CreateTargets(w, i, h)
    \/ Execute([i \in 1..Len(targets) |-> "skip"])

SpecSchedule == InitSchedule /\ [][NextSchedule]_vars

\* the return windows alone: A is new (no bar seen yet) and B is one return
\* short of a full window; each date brings bars for some of the symbols
ReturnsDays == 3
WindowsAtStart ==
    [s \in Symbols |-> IF s = "A" THEN <<>> ELSE Alternating(vol_lookback - 1, 100)]
DayBars == UNION {[D -> {99, 101}] : D \in SUBSET Symbols}

InitReturns ==
    InitWith({[scaling_days |-> 2, interval |-> 2, max_weight |-> Rat(10, 100),
               max_gross |-> Rat(150, 100), max_net |-> Rat(50, 100)]},
             {WindowsAtStart})

NextReturns ==
    \/ today < ReturnsDays /\ AdvanceDate
    \/ \E bars \in DayBars : OnData(bars)

SpecReturns == InitReturns /\ [][NextReturns]_vars

\* the execution model on its own: built with portfolio_model = None in an
\* algorithm that has no pcm attribute, so that _get_portfolio_model gives
\* None; targets come from elsewhere
ExecDays == 4
\* the targets another portfolio construction model may hand over
ForeignTargets ==
    { <<>>, <<[symbol |-> "A", weight |-> Rat(1, 10)]>>,
      <<[symbol |-> "A", weight |-> Rat(1, 10)], [symbol |-> "B", weight |-> Rat(-1, 10)]>> }

\* the framework hands the day's targets to the execution model
TargetsHandedOver(ts) ==
    /\ pc \in {"open", "scheduled"}
    /\ \A i \in 1..Len(ts) : ts[i].symbol \in DOMAIN securities
    /\ targets' = ts
    /\ pc' = "execute"
    /\ UNCHANGED <<cfgVars, pcmVars, execVars, today, securities, orders, steps, tick>>

\* Execute with no engine: the default signal strength, today's date as the
\* week_id of the tag, scale_day 0, and no engine to write to
ExecuteAlone(choice) ==
    /\ pc = "execute"
    /\ \E e \in {ExecuteFrom(1, choice,
                         [tickets |-> open_limit_tickets, checks |-> limit_open_checks,
                          prices |-> market_price_at_submit, week_ids |-> order_week_ids,
                          orders |-> orders, cwid |-> NoString])} :
           /\ open_limit_tickets' = e.tickets
           /\ limit_open_checks' = e.checks
           /\ market_price_at_submit' = e.prices
           /\ order_week_ids' = e.week_ids
           /\ orders' = e.orders
    /\ pc' = "pipeline"
    /\ targets' = <<>>
    /\ UNCHANGED <<cfgVars, pcmVars, today, securities, steps, tick>>

\* cancel_stale_orders called at the market open with no engine: no
\* current_week_id to read, and no last_cancel_check_date to set
CancelAlone ==
    /\ pc = "open"
    /\ \E r \in {cancel_stale_orders(ExecState, NoString)} :
           /\ open_limit_tickets' = r.tickets
           /\ limit_open_checks' = r.checks
           /\ market_price_at_submit' = r.prices
           /\ order_week_ids' = r.week_ids
           /\ orders' = r.orders
    /\ pc' = "scheduled"
    /\ steps' = Append(steps, "cancel")
    /\ UNCHANGED <<cfgVars, pcmVars, today, securities, targets, tick>>

NextExec ==
    \/ today < ExecDays /\ AdvanceDate
    \/ CancelAlone
    \/ \E ts \in ForeignTargets : TargetsHandedOver(ts)
    \/ \E c \in [1..Len(targets) -> ExecChoices] : ExecuteAlone(c)
    \/ \E id \in 1..MaxOrders, st \in TerminalStatuses \cup {"PartiallyFilled"} :
           OrderEvent(id, st)
    \/ \E id \in 1..MaxOrders : RepeatedOrderEvent(id)
    \/ \E s \in Symbols : SecurityRemoved(s)

SpecExec == Init /\ [][NextExec]_vars

\* order placement alone: the engine and Execute under insights of every
\* strength tier, with no cancellation pass and no order event
PlaceDays == 3
PlaceInsightSets ==
    { [s \in Symbols |-> IF s = "A" THEN Insight("Up", 7) ELSE Insight("Down", 2)],
      [s \in Symbols |-> IF s = "A" THEN Insight("Up", 3) ELSE Insight("Up", 6)],
      [s \in {"B"} |-> Insight("Down", 8)],
      [s \in {"A"} |-> Insight("Up", 0)] }

NextPlace ==
    \/ today < PlaceDays /\ AdvanceDate
    \/ OnData(BarsOf(DOMAIN securities))
    \/ /\ CallsToday < MaxCalls
       /\ \E w \in AlphaWrites, i \in PlaceInsightSets, h \in FewHoldingSets :
             CreateTargets(w, i, h)
    \/ \E c \in [1..Len(targets) -> ExecChoices] : Execute(c)

SpecPlace == Init /\ [][NextPlace]_vars

\* the once-a-day cancellation pass: the scheduled pass of main.py beside an
\* engine the framework may call more than once on a date
OnceDays == 3
OnceCalls == 2
NextOnce ==
    \/ today < OnceDays /\ AdvanceDate
    \/ ScheduledCancel
    \/ OnData(BarsOf(DOMAIN securities))
    \/ /\ CallsToday < OnceCalls
       /\ \E w \in AlphaWrites, i \in FewInsightSets, h \in FewHoldingSets :
             CreateTargets(w, i, h)
    \/ \E c \in [1..Len(targets) -> {"skip", "buy"}] : Execute(c)

SpecOnce == Init /\ [][NextOnce]_vars

\* whole rebalance cycles: the engine over enough dates for a second and a
\* third rebalance, under intervals at, above and below scaling_days
CycleDays == 5
CycleConfigs ==
    { [scaling_days |-> c[1], interval |-> c[2],
       max_weight |-> Rat(10, 100), max_gross |-> Rat(150, 100), max_net |-> Rat(50, 100)] :
      c \in {<<1, 1>>, <<1, 2>>, <<2, 2>>, <<2, 3>>, <<3, 3>>, <<3, 2>>} }
CycleInsightSets ==
    { EmptyMap,
      [s \in {"A"} |-> Insight("Up", 7)],
      [s \in Symbols |-> IF s = "A" THEN Insight("Up", 3) ELSE Insight("Down", 2)] }
InitCycle == InitWith(CycleConfigs, {WarmWindows})

\* the ticks of the engine under the alpha writes given
CycleStep(writes) ==
    \/ today < CycleDays /\ AdvanceDate
    \/ OnData(BarsOf(DOMAIN securities))
    \/ /\ CallsToday < EngineCalls
       /\ \E w \in writes, i \in CycleInsightSets, h \in FewHoldingSets :
             CreateTargets(w, i, h)
    \/ Execute([i \in 1..Len(targets) |-> "skip"])
    \/ \E s \in Symbols : SecurityRemoved(s)

\* the alpha never sets is_rebalance_day
NextCycle == CycleStep({"clear", "none"})
SpecCycle == InitCycle /\ [][NextCycle]_vars

\* the alpha may set is_rebalance_day before any call
NextForced == CycleStep(AlphaWrites)
SpecForced == InitCycle /\ [][NextForced]_vars
\* ------------------------------------------------------------------------
\* Properties
\* ------------------------------------------------------------------------
\* CreateTargets has just returned from a rebalance
AfterRebalance == pc = "execute" /\ tick.kind = "rebalance"
\* CreateTargets has just returned from a non-rebalance tick
AfterScaling == pc = "execute" /\ tick.kind = "scaling"
\* the symbols of the instructions CreateTargets returned
InstructionsOf(s) == {i \in 1..Len(targets) : targets[i].symbol = s}

\* C1: after every rebalance in which _compute_weekly_targets produced a
\* target vector, weekly_targets satisfy the three caps at once: every
\* |w| <= max_weight, sum |w| <= max_gross and |sum w| <= max_net
C1_CapsHold ==
    (AfterRebalance /\ ~BelowTiny(tick.total_abs)) =>
        /\ \A s \in DOMAIN weekly_targets : RLe(RAbs(weekly_targets[s]), max_weight)
        /\ RLe(Gross(weekly_targets), max_gross)
        /\ RLe(RAbs(Net(weekly_targets)), max_net)

\* a rebalance in which each of the three caps acted on the vector
C1_AllCapsBind ==
    /\ AfterRebalance
    /\ ~BelowTiny(tick.total_abs)
    /\ \E s \in DOMAIN tick.pre_cap : RLt(max_weight, RAbs(tick.pre_cap[s]))
    /\ RLt(max_gross, Gross(apply_per_name_cap(tick.pre_cap, max_weight)))
    /\ RLt(max_net, RAbs(Net(apply_gross_cap(apply_per_name_cap(tick.pre_cap, max_weight),
                                             max_gross))))
    /\ Gross(weekly_targets).n > 0

\* a step in which cancel_stale_orders ran: "cancel" is among the steps added
CancelPass ==
    /\ Len(steps') > Len(steps)
    /\ "cancel" \in SeqToSet(SubSeq(steps', Len(steps) + 1, Len(steps')))
\* the tracked orders that are still open, with the week they were placed in
TrackedOpen == {id \in SeqToSet(open_limit_tickets) :
                   /\ orders[id].status \in OpenStatuses
                   /\ id \in DOMAIN order_week_ids}

\* C2: in a cancellation pass run with current_week_id set, an open tracked
\* order whose recorded week_id equals current_week_id is not cancelled: the
\* order is as it was and it stays in open_limit_tickets, limit_open_checks,
\* order_week_ids and market_price_at_submit
C2_CurrentCycleKept ==
    [][(CancelPass /\ current_week_id' # NoString) =>
          \A id \in TrackedOpen :
              order_week_ids[id] = current_week_id' =>
                  /\ orders'[id] = orders[id]
                  /\ id \in SeqToSet(open_limit_tickets')
                  /\ id \in DOMAIN order_week_ids' /\ order_week_ids'[id] = order_week_ids[id]
                  /\ (id \in DOMAIN limit_open_checks => id \in DOMAIN limit_open_checks')
                  /\ (id \in DOMAIN market_price_at_submit
                         => id \in DOMAIN market_price_at_submit')]_vars
\* the scheduled pass has just run on a later day of a cycle: the order of
\* that cycle is still open and tracked, an order of an older cycle is not
C2_KeptAfterPass ==
    /\ pc = "scheduled" /\ current_week_id # NoString
    /\ current_week_id # strftime(Calendar[today])
    /\ \E id \in TrackedOpen : order_week_ids[id] = current_week_id
    /\ \E id \in DOMAIN orders : orders[id].cancels > 0

\* C3: in a cancellation pass run with current_week_id set, a tracked order
\* that is still Submitted or PartiallyFilled and whose recorded week_id is
\* lexicographically less than current_week_id gets a cancel request and is
\* removed from open_limit_tickets, limit_open_checks, order_week_ids and
\* market_price_at_submit
C3_StaleCancelled ==
    [][(CancelPass /\ current_week_id' # NoString) =>
          \A id \in TrackedOpen :
              LexLess(order_week_ids[id], current_week_id') =>
                  /\ orders'[id].cancels = orders[id].cancels + 1
                  /\ orders'[id].status = "CancelPending"
                  /\ id \notin SeqToSet(open_limit_tickets')
                  /\ id \notin DOMAIN limit_open_checks'
                  /\ id \notin DOMAIN order_week_ids'
                  /\ id \notin DOMAIN market_price_at_submit']_vars
\* a pass has just cancelled an order of an older cycle
C3_CancelledAfterAdvance ==
    /\ "cancel" \in SeqToSet(steps) /\ pc \in {"scheduled", "execute"}
    /\ \E id \in DOMAIN orders :
           /\ orders[id].status = "CancelPending" /\ orders[id].cancels = 1
           /\ LexLess(extract_week_id_from_tag(orders[id].tag), current_week_id)
           /\ id \notin SeqToSet(open_limit_tickets)
           /\ id \notin DOMAIN market_price_at_submit

\* the place of a step in the order the daily tick is said to have
StepRank(step) ==
    CASE step = "returns" -> 1
      [] step = "cancel" -> 2
      [] step \in {"CreateTargets", "classify", "advance"} -> 3
      [] OTHER -> 4
C5_HoldNotEmitted ==
    AfterRebalance =>
        \A s \in DOMAIN last_classifications :
            last_classifications[s] = "HOLD" => InstructionsOf(s) = {}
\* a symbol that was still scaling in is classified HOLD
C5_HoldWhileScaling ==
    /\ AfterRebalance
    /\ \E s \in DOMAIN last_classifications :
           /\ last_classifications[s] = "HOLD"
           /\ s \in DOMAIN tick.prior_state /\ tick.prior_state[s].is_scaling
           /\ symbol_scale_state[s] = [scale_day |-> 0, is_scaling |-> FALSE]
           /\ InstructionsOf(s) = {}

\* the schedule fraction an instruction of s carries, s being in scale-in
ScheduleFraction(s) ==
    LET strength == Get(signal_strengths, s, DefaultStrength)
        schedule == IF RLe(Rat(7, 10), strength) THEN strong_schedule
                    ELSE IF RLe(Rat(3, 10), strength) THEN moderate_schedule
                    ELSE weak_schedule
        scale_day == symbol_scale_state[s].scale_day
    IN  schedule[(IF scale_day < scaling_days - 1 THEN scale_day ELSE scaling_days - 1) + 1]
\* the symbols of weekly_targets that are in scale-in
Scaling == {s \in DOMAIN weekly_targets :
               s \in DOMAIN symbol_scale_state /\ symbol_scale_state[s].is_scaling}
\* on a day without rebalance the instructions are those of the symbols in
\* scale-in, one each, with weight weekly_target x schedule[scale_day]
ScalingOnlyEmitted ==
    /\ {targets[i].symbol : i \in 1..Len(targets)} = Scaling
    /\ \A s \in Scaling :
           /\ Cardinality(InstructionsOf(s)) = 1
           /\ \A i \in InstructionsOf(s) :
                  targets[i].weight = RMul(weekly_targets[s], ScheduleFraction(s))

C7_AsStated ==
    \A s \in DOMAIN last_classifications :
        last_classifications[s] = "FLIP" =>
            /\ AfterRebalance =>
                   /\ Cardinality(InstructionsOf(s)) = 1
                   /\ \A i \in InstructionsOf(s) : targets[i].weight = RZero
            /\ (AfterScaling /\ trading_days_since_rebalance = 2
                    /\ s \in DOMAIN weekly_targets) =>
                   \E i \in InstructionsOf(s) :
                       LET schedule == get_scaling_schedule(
                                           Get(signal_strengths, s, DefaultStrength))
                           idx == IF 1 < Len(schedule) - 1 THEN 1 ELSE Len(schedule) - 1
                       IN  targets[i].weight = RMul(weekly_targets[s], schedule[idx + 1])

\* C8: after a rebalance a symbol classified NEW_ENTRY has ScaleState
\* {scale_day 0, is_scaling true} and exactly one instruction, of weight
\* weekly_target x schedule[0], the schedule being the strong one for a
\* signal strength >= 0.7, the moderate one for >= 0.3 and the weak one below
C8_NewEntryFirstDay ==
    AfterRebalance =>
        \A s \in DOMAIN last_classifications :
            last_classifications[s] = "NEW_ENTRY" =>
                /\ s \in DOMAIN symbol_scale_state
                /\ symbol_scale_state[s] = [scale_day |-> 0, is_scaling |-> TRUE]
                /\ Cardinality(InstructionsOf(s)) = 1
                /\ \A i \in InstructionsOf(s) :
                       LET strength == signal_strengths[s]
                           schedule == IF RLe(Rat(7, 10), strength) THEN strong_schedule
                                       ELSE IF RLe(Rat(3, 10), strength) THEN moderate_schedule
                                       ELSE weak_schedule
                       IN  targets[i].weight = RMul(weekly_targets[s], schedule[1])
\* two new entries on one rebalance, one of strength exactly 0.7 and one
\* below 0.3, whose schedules differ on the first day
C8_StrongAndWeakEntry ==
    /\ AfterRebalance /\ scaling_days > 1
    /\ \E s, t \in DOMAIN last_classifications :
           /\ last_classifications[s] = "NEW_ENTRY" /\ last_classifications[t] = "NEW_ENTRY"
           /\ signal_strengths[s] = Rat(7, 10) /\ RLt(signal_strengths[t], Rat(3, 10))
           /\ weekly_targets[s].n # 0 /\ weekly_targets[t].n # 0
           /\ InstructionsOf(s) # {} /\ InstructionsOf(t) # {}

\* a rebalance on a degenerate signal set
AfterDegenerate == AfterRebalance /\ BelowTiny(tick.total_abs)
\* C9 as stated: a rebalance on a degenerate signal set returns no
\* instruction and leaves weekly_targets and every ScaleState as they were
C9_AsStated ==
    AfterDegenerate =>
        /\ targets = <<>>
        /\ weekly_targets = tick.prior_targets
        /\ symbol_scale_state = tick.prior_state
\* C9: a rebalance on a degenerate signal set empties weekly_targets and
\* signal_strengths; every symbol that had a target gets exactly one
\* instruction, of weight 0, and loses its ScaleState, and no instruction
\* has another weight
C9_DegenerateExits ==
    AfterDegenerate =>
        /\ weekly_targets = EmptyMap /\ signal_strengths = EmptyMap
        /\ \A s \in DOMAIN tick.prior_targets :
               /\ Cardinality(InstructionsOf(s)) = 1
               /\ s \notin DOMAIN symbol_scale_state
               /\ last_classifications[s] = "EXIT"
        /\ \A i \in 1..Len(targets) : targets[i].weight = RZero
\* a degenerate signal set met while targets of the last cycle are in place
C9_DegenerateWithTargets ==
    /\ AfterDegenerate
    /\ \E s \in DOMAIN tick.prior_targets :
           tick.prior_targets[s].n # 0 /\ s \in DOMAIN tick.prior_state

\* the symbols with a weight in the normalized vector whose window is short
ShortOfReturns ==
    {s \in DOMAIN tick.normalized :
        /\ AboveTiny(RAbs(tick.normalized[s]))
        /\ (s \notin DOMAIN rolling_returns \/ Len(rolling_returns[s]) < min_obs)}
\* C10: at a rebalance where a symbol with |normalized weight| > 1e-8 has
\* fewer than min_obs returns, the volatility estimate is unavailable and
\* the weights that enter the caps are the normalized ones, with gross 1
C10_AllOrNothing ==
    (AfterRebalance /\ ShortOfReturns # {}) =>
        /\ tick.vol = RNone
        /\ tick.pre_cap = tick.normalized
        /\ Gross(tick.normalized) = ROne
        /\ DOMAIN weekly_targets = DOMAIN tick.normalized
\* one weighted symbol has min_obs returns and another is short of them
C10_OneShortOneFull ==
    /\ AfterRebalance /\ ShortOfReturns # {}
    /\ \E s \in DOMAIN tick.normalized \ ShortOfReturns :
           AboveTiny(RAbs(tick.normalized[s])) /\ Len(rolling_returns[s]) >= min_obs
    /\ tick.vol = RNone

\* the bookkeeping SignalStrengthExecutionModel.OnOrderEvent writes
eventVars == <<open_limit_tickets, limit_open_checks, order_week_ids>>
\* the ids with an entry in one of those structures
Tracked == SeqToSet(open_limit_tickets) \cup DOMAIN limit_open_checks
           \cup DOMAIN order_week_ids

\* C11: a terminal event delivered a second time for the same order id
\* leaves open_limit_tickets, limit_open_checks and order_week_ids as they
\* were, and so does a terminal event for an order id that is not tracked
C11_TerminalEventIdempotent ==
    [][\A id \in 1..MaxOrders :
          /\ RepeatedOrderEvent(id) => UNCHANGED eventVars
          /\ ((\E st \in TerminalStatuses : OrderEvent(id, st)) /\ id \notin Tracked)
                 => UNCHANGED eventVars]_vars
\* an order cancelled by the stale-order rule, and so no longer tracked, has
\* had its Canceled event, while another order is still open and tracked
C11_TerminalBesideTracked ==
    /\ Quiet
    /\ \E id \in DOMAIN orders :
           /\ orders[id].status = "Canceled" /\ orders[id].cancels > 0
           /\ id \notin Tracked
    /\ TrackedOpen # {}

\* C12: once a Filled, Canceled or Invalid event for an order with an entry
\* in the bookkeeping has been processed, none of open_limit_tickets,
\* limit_open_checks, order_week_ids and market_price_at_submit holds an
\* entry for that order id
C12_BookkeepingCleared ==
    [][\A id \in 1..MaxOrders :
          ((\E st \in TerminalStatuses : OrderEvent(id, st))
              /\ id \in Tracked \cup DOMAIN market_price_at_submit)
          => /\ id \notin SeqToSet(open_limit_tickets')
             /\ id \notin DOMAIN limit_open_checks'
             /\ id \notin DOMAIN order_week_ids'
             /\ id \notin DOMAIN market_price_at_submit']_vars
\* a limit order that was tracked until it was filled: no cancel was ever
\* requested for it, and it has no entry left
C12_FilledAndCleared ==
    /\ Quiet
    /\ \E id \in DOMAIN orders :
           /\ orders[id].status = "Filled" /\ orders[id].tier # "exit"
           /\ orders[id].cancels = 0
           /\ id \notin Tracked \cup DOMAIN market_price_at_submit

\* C13: when a symbol is removed from the universe, each of its tickets in
\* open_limit_tickets that is Submitted or PartiallyFilled gets a cancel
\* request, every ticket of the symbol leaves open_limit_tickets,
\* limit_open_checks and order_week_ids whatever its week_id, and the
\* orders and the bookkeeping of the other symbols are as they were
C13_RemovalPurges ==
    [][\A sym \in Symbols :
          SecurityRemoved(sym) =>
              \A id \in DOMAIN orders :
                  IF orders[id].symbol = sym
                  THEN /\ (id \in SeqToSet(open_limit_tickets)
                           /\ orders[id].status \in OpenStatuses)
                          => /\ orders'[id].cancels = orders[id].cancels + 1
                             /\ orders'[id].status = "CancelPending"
                       /\ id \notin SeqToSet(open_limit_tickets')
                       /\ id \notin DOMAIN limit_open_checks'
                       /\ id \notin DOMAIN order_week_ids'
                  ELSE /\ orders'[id] = orders[id]
                       /\ (id \in SeqToSet(open_limit_tickets))
                              = (id \in SeqToSet(open_limit_tickets'))
                       /\ (id \in DOMAIN limit_open_checks) = (id \in DOMAIN limit_open_checks')
                       /\ (id \in DOMAIN order_week_ids) = (id \in DOMAIN order_week_ids')]_vars
\* a symbol has been removed while an order of the current cycle was open
\* for it: the order is cancelled and purged
C13_RemovedInCycle ==
    /\ Quiet
    /\ \E id \in DOMAIN orders :
           /\ orders[id].symbol \notin DOMAIN securities
           /\ orders[id].status = "CancelPending" /\ orders[id].cancels = 1
           /\ extract_week_id_from_tag(orders[id].tag) = current_week_id
           /\ id \notin Tracked
           /\ id \in DOMAIN market_price_at_submit

\* C14: in every step a cancel request is sent only to an order that is
\* Submitted or PartiallyFilled at that moment, one request at a time, and
\* an order that is Filled, Canceled or Invalid keeps its status
C14_CancelOnlyOpen ==
    [][\A id \in DOMAIN orders :
          /\ orders'[id].cancels # orders[id].cancels =>
                 /\ orders[id].status \in {"Submitted", "PartiallyFilled"}
                 /\ orders'[id].cancels = orders[id].cancels + 1
          /\ orders[id].status \in {"Filled", "Canceled", "Invalid"} =>
                 orders'[id].status = orders[id].status]_vars
\* an order the check-count fallback cancelled stayed in open_limit_tickets
\* waiting for its Canceled event; its symbol was then removed from the
\* universe, and the removal purged it without a second request
C14_NoSecondRequest ==
    \E id \in DOMAIN orders :
        /\ orders[id].status = "CancelPending" /\ orders[id].cancels = 1
        /\ orders[id].symbol \notin DOMAIN securities
        /\ id \notin SeqToSet(open_limit_tickets)
        /\ id \notin DOMAIN market_price_at_submit

\* C15: every order Execute places is a market order tagged "exit" exactly
\* when the symbol is invested and the position the order leaves is under 1%
\* of the current quantity, whatever the signal strength; otherwise it is a
\* limit order of tier strong (strength >= 0.70, offset 0), moderate
\* (>= 0.30, offset 0.5%) or weak (below 0.30, offset 1.5%), whose price
\* before tick rounding is price x (1 - offset) for a buy and
\* price x (1 + offset) for a sell.
C15_OrderTypeAndTier ==
    \A id \in DOMAIN orders :
        LET o == orders[id]
            leaves == Abs(o.holding + o.quantity)
            strength == o.signal_strength
        IN  IF o.holding # 0 /\ leaves * 100 < Abs(o.holding)
            THEN /\ o.type = "Market"
                 /\ SubSeq(o.tag, 1, 10) = <<"t", "i", "e", "r", "=", "e", "x", "i", "t", ";">>
            ELSE /\ o.type = "Limit"
                 /\ o.tier = (IF RLe(Rat(70, 100), strength) THEN "strong"
                              ELSE IF RLe(Rat(30, 100), strength) THEN "moderate"
                              ELSE "weak")
                 /\ \E pct \in {IF o.tier = "strong" THEN Rat(0, 1000)
                                 ELSE IF o.tier = "moderate" THEN Rat(5, 1000)
                                 ELSE Rat(15, 1000)} :
                    \E stated \in {IF o.quantity > 0
                                    THEN RMul(Rat(o.market_price, 1), RSub(ROne, pct))
                                    ELSE RMul(Rat(o.market_price, 1), RAdd(ROne, pct))} :
                        o.raw_price.n * stated.d = stated.n * o.raw_price.d

\* one Execute has placed, for a symbol of strong signal, a market order
\* that leaves 9 of a short position of 1000, and beside it a weak limit
\* order that sells 99 of 100 shares above the market price
C15_ExitBesideWeakSell ==
    /\ \E id \in DOMAIN orders :
           /\ orders[id].type = "Market" /\ orders[id].tier = "exit"
           /\ orders[id].holding = -1000 /\ orders[id].quantity = 991
           /\ RLe(StrongThreshold, orders[id].signal_strength)
    /\ \E id \in DOMAIN orders :
           /\ orders[id].type = "Limit" /\ orders[id].tier = "weak"
           /\ orders[id].holding = 100 /\ orders[id].quantity = -99
           /\ RLt(Rat(orders[id].market_price, 1), orders[id].raw_price)

\* the engine state the execution model reads
engineRead == <<current_week_id, symbol_scale_state, weekly_targets, signal_strengths>>

\* C16: no operation of the execution model (Execute, the scheduled
\* cancel_stale_orders with its legacy fallback, OnOrderEvent, and
\* OnSecuritiesChanged as far as current_week_id goes) changes the engine's
\* current_week_id, symbol_scale_state, weekly_targets or signal_strengths.
C16_EngineOnlyRead ==
    [][/\ (\E c \in [1..Len(targets) -> ExecChoices] : Execute(c)) => UNCHANGED engineRead
       /\ ScheduledCancel => UNCHANGED engineRead
       /\ (\E id \in 1..MaxOrders :
              \/ RepeatedOrderEvent(id)
              \/ \E st \in TerminalStatuses \cup {"PartiallyFilled"} : OrderEvent(id, st))
             => UNCHANGED engineRead
       /\ (\E sym \in Symbols : SecurityRemoved(sym)) => UNCHANGED current_week_id]_vars
\* Execute has just placed an order on a day after the rebalance that set
\* the week id: the order carries that week id, which is not today's date
C16_PlacedAfterRebalanceDay ==
    /\ pc = "pipeline"
    /\ current_week_id # NoString
    /\ current_week_id # strftime(Calendar[today])
    /\ \E id \in DOMAIN order_week_ids :
           /\ order_week_ids[id] = current_week_id
           /\ orders[id].status = "Submitted"
           /\ \A other \in DOMAIN orders : other <= id

\* C17: a price bar or an order event for a symbol the engine no longer
\* tracks (it was removed from the universe) leaves the engine's state
\* unchanged: the symbol is not put back into symbols and gets no return
\* window and no prev_close entry.
C17_AsStated ==
    [][\A s \in Symbols \ (symbols \cup DOMAIN securities) :
          /\ OnData(BarsOf(Symbols)) =>
                 /\ s \notin symbols'
                 /\ s \notin DOMAIN rolling_returns'
                 /\ s \notin DOMAIN prev_close'
          /\ (\E id \in DOMAIN orders :
                 /\ orders[id].symbol = s
                 /\ \/ RepeatedOrderEvent(id)
                    \/ \E st \in TerminalStatuses \cup {"PartiallyFilled"} : OrderEvent(id, st))
                => UNCHANGED pcmVars]_vars

\* the front-load factors whose schedule of n entries is modelled
FactorsOf(n) == IF n <= Len(StrongPowers) THEN {"2.0", "1.3", "1.0"} ELSE {"1.0"}

LabelTable(s, Opposite(_, _)) ==
    LET has_new == s \in DOMAIN weekly_targets
        had_prior == s \in DOMAIN tick.old_targets
        new_w == Get(weekly_targets, s, RZero)
        old_w == Get(tick.old_targets, s, RZero)
        actual_w == Get(tick.actual_weights, s, RZero)
        held == AboveTiny(RAbs(actual_w))
        label == Get(last_classifications, s, "")
    IN  /\ label \in {"", "NEW_ENTRY", "FLIP", "EXIT", "HOLD", "RESIZE"}
        /\ (label # "") <=> (has_new \/ had_prior \/ held)
        /\ (label = "NEW_ENTRY") <=> (has_new /\ ~had_prior /\ ~held)
        /\ (label = "FLIP") <=>
               /\ has_new
               /\ \/ ~had_prior /\ held /\ Opposite(actual_w, new_w)
                  \/ had_prior /\ Opposite(old_w, new_w)
        /\ (label = "EXIT") <=> (~has_new /\ (had_prior \/ held))
        /\ (label = "HOLD") <=>
               /\ has_new /\ had_prior /\ ~Opposite(old_w, new_w)
               /\ RLe(RAbs(RSub(new_w, actual_w)), rebalance_dead_band)
\* one weight positive and the other negative
OppositeSigns(a, b) == (a.n > 0 /\ b.n < 0) \/ (a.n < 0 /\ b.n > 0)
\* one weight positive and the other not, as the code compares (w > 0)
OnePositive(a, b) == (a.n > 0) # (b.n > 0)

\* C20 as stated: every symbol has exactly one label when it has a new
\* target, a prior target or a holding and none otherwise, and the label
\* follows the table, "opposite sign" meaning one weight positive and the
\* other negative
C20_AsStated == AfterRebalance => \A s \in Symbols : LabelTable(s, OppositeSigns)

\* C20: every symbol has exactly one label when it has a new target, a
\* prior target or a holding and none otherwise, and the label follows the
\* table with the signs compared as (w > 0): a weight of 0 counts with the
\* negative ones, so a new target of 0 is a FLIP against a long position
\* or a positive prior target.
C20_LabelTable == AfterRebalance => \A s \in Symbols : LabelTable(s, OnePositive)
\* a rebalance has given A, held long and not targeted before, a new
\* target of 0 and labelled it FLIP, beside a new entry of B
C20_FlipToZeroTarget ==
    /\ AfterRebalance
    /\ "A" \in DOMAIN weekly_targets /\ weekly_targets["A"] = RZero
    /\ "A" \notin DOMAIN tick.old_targets
    /\ "A" \in DOMAIN tick.actual_weights /\ tick.actual_weights["A"].n > 0
    /\ last_classifications = [s \in Symbols |-> IF s = "A" THEN "FLIP" ELSE "NEW_ENTRY"]

\* C21: every symbol labelled RESIZE has a new target whose deviation from
\* the actual weight exceeds the dead-band, |new_target - actual| >
\* dead_band, with a prior target of the same sign as well as with no prior
\* target but a holding of the matching sign.
C21_AsStated ==
    AfterRebalance =>
        \A s \in DOMAIN last_classifications :
            last_classifications[s] = "RESIZE" =>
                /\ s \in DOMAIN weekly_targets
                /\ RLt(rebalance_dead_band,
                       RAbs(RSub(weekly_targets[s], Get(tick.actual_weights, s, RZero))))

\* C22: after the state update of a rebalance, a symbol classified
\* NEW_ENTRY or FLIP has the state {scale_day 0, is_scaling true}, a symbol
\* classified RESIZE or HOLD has {scale_day 0, is_scaling false} whatever
\* its state was before, and a symbol classified EXIT has no state.
C22_StateAfterRebalance ==
    AfterRebalance =>
        \A s \in DOMAIN last_classifications :
            \E label \in {last_classifications[s]} :
                /\ label \in {"NEW_ENTRY", "FLIP"} =>
                       /\ s \in DOMAIN symbol_scale_state
                       /\ symbol_scale_state[s] = [scale_day |-> 0, is_scaling |-> TRUE]
                /\ label \in {"RESIZE", "HOLD"} =>
                       /\ s \in DOMAIN symbol_scale_state
                       /\ symbol_scale_state[s] = [scale_day |-> 0, is_scaling |-> FALSE]
                /\ label = "EXIT" => s \notin DOMAIN symbol_scale_state
\* a RESIZE has cut short a scale-in that was on its second day, and an
\* EXIT has removed the state of the other symbol
C22_ScaleInCutShort ==
    /\ AfterRebalance
    /\ \E s \in DOMAIN last_classifications :
           /\ last_classifications[s] = "RESIZE"
           /\ s \in DOMAIN tick.prior_state
           /\ tick.prior_state[s] = [scale_day |-> 1, is_scaling |-> TRUE]
           /\ symbol_scale_state[s] = [scale_day |-> 0, is_scaling |-> FALSE]
    /\ \E s \in DOMAIN last_classifications :
           /\ last_classifications[s] = "EXIT"
           /\ s \in DOMAIN tick.prior_state
           /\ s \notin DOMAIN symbol_scale_state

\* C23: on a non-rebalance tick a scaling symbol has scale_day increased by
\* one if scale_day < scaling_days - 1 and is otherwise set to is_scaling
\* false with scale_day unchanged; a symbol that is not scaling is left as
\* it was; and in every state 0 <= scale_day <= scaling_days - 1.
C23_AdvanceOnNonRebalance ==
    /\ \A s \in DOMAIN symbol_scale_state :
           /\ 0 <= symbol_scale_state[s].scale_day
           /\ symbol_scale_state[s].scale_day <= scaling_days - 1
    /\ AfterScaling =>
           /\ DOMAIN symbol_scale_state = DOMAIN tick.prior_state
           /\ \A s \in DOMAIN symbol_scale_state :
                  \E before \in {tick.prior_state[s]}, after \in {symbol_scale_state[s]} :
                      IF before.is_scaling
                      THEN IF before.scale_day < scaling_days - 1
                           THEN /\ after.scale_day = before.scale_day + 1
                                /\ after.is_scaling
                           ELSE /\ after.scale_day = before.scale_day
                                /\ ~after.is_scaling
                      ELSE after = before
\* a non-rebalance tick has moved one symbol to the last day of its
\* scale-in, still scaling, and left a symbol that is not scaling alone
C23_LastDayReached ==
    /\ AfterScaling
    /\ \E s \in DOMAIN symbol_scale_state :
           /\ tick.prior_state[s] = [scale_day |-> scaling_days - 2, is_scaling |-> TRUE]
           /\ symbol_scale_state[s] = [scale_day |-> scaling_days - 1, is_scaling |-> TRUE]
    /\ \E s \in DOMAIN symbol_scale_state :
           /\ ~tick.prior_state[s].is_scaling
           /\ symbol_scale_state[s] = tick.prior_state[s]

\* C24: after a rebalance every symbol classified RESIZE has exactly one
\* instruction, of its full new target weight, and every symbol classified
\* EXIT has exactly one instruction, of weight 0, also when it was only
\* targeted and is not held.
C24_ResizeFullExitZero ==
    AfterRebalance =>
        \A s \in DOMAIN last_classifications :
            /\ last_classifications[s] = "RESIZE" =>
                   /\ Cardinality(InstructionsOf(s)) = 1
                   /\ \A i \in InstructionsOf(s) : targets[i].weight = weekly_targets[s]
            /\ last_classifications[s] = "EXIT" =>
                   /\ Cardinality(InstructionsOf(s)) = 1
                   /\ \A i \in InstructionsOf(s) : targets[i].weight = RZero
\* a rebalance has resized one symbol at a weight that is not 0 and closed
\* the other, which had a prior target and no holding
C24_ResizeBesideUnheldExit ==
    /\ AfterRebalance
    /\ \E s \in DOMAIN last_classifications :
           /\ last_classifications[s] = "RESIZE"
           /\ weekly_targets[s] # RZero
           /\ \E i \in InstructionsOf(s) : targets[i].weight = weekly_targets[s]
    /\ \E s \in DOMAIN last_classifications :
           /\ last_classifications[s] = "EXIT"
           /\ s \in DOMAIN tick.old_targets
           /\ s \notin DOMAIN tick.actual_weights
           /\ \E i \in InstructionsOf(s) : targets[i].weight = RZero

\* C25: the check count is used only while current_week_id is not set, and
\* then on every open tracked order: a pass adds exactly one to the order's
\* count and cancels the order exactly when the count reaches
\* limit_cancel_after_open_checks, never earlier; while current_week_id is
\* set no count moves and a pass cancels an order only for its week_id.
C25_CountFallback ==
    [][\A id \in DOMAIN orders :
          /\ (CancelAlone \/ ScheduledCancel) /\ current_week_id = NoString =>
                 \E counted \in {Get(limit_open_checks, id, 0) + 1} :
                     IF id \in SeqToSet(open_limit_tickets)
                           /\ orders[id].status \in {"Submitted", "PartiallyFilled"}
                     THEN IF counted >= limit_cancel_after_open_checks
                          THEN /\ orders'[id].cancels = orders[id].cancels + 1
                               /\ id \notin DOMAIN limit_open_checks'
                          ELSE /\ orders'[id] = orders[id]
                               /\ id \in DOMAIN limit_open_checks'
                               /\ limit_open_checks'[id] = counted
                     ELSE /\ orders'[id] = orders[id]
                          /\ id \in DOMAIN limit_open_checks' =>
                                 /\ id \in DOMAIN limit_open_checks
                                 /\ limit_open_checks'[id] = limit_open_checks[id]
          /\ (id \in DOMAIN limit_open_checks /\ id \in DOMAIN limit_open_checks'
                 /\ limit_open_checks'[id] # limit_open_checks[id]) =>
                 /\ current_week_id' = NoString
                 /\ limit_open_checks'[id] = limit_open_checks[id] + 1
          /\ (orders'[id].cancels # orders[id].cancels /\ securities' = securities
                 /\ current_week_id' # NoString) =>
                 /\ id \in DOMAIN order_week_ids
                 /\ LexLess(order_week_ids[id], current_week_id')]_vars
\* with no week id set, one order has been cancelled by its second check
\* while a later order has been counted once and is still open
C25_SecondCheckCancels ==
    /\ current_week_id = NoString
    /\ \E id \in DOMAIN orders :
           /\ orders[id].status = "CancelPending" /\ orders[id].cancels = 1
           /\ id \in SeqToSet(open_limit_tickets)
           /\ id \notin DOMAIN limit_open_checks
    /\ \E id \in TrackedOpen : limit_open_checks[id] = 1

\* the last field of a tag
ScaleDayField(scale_day) ==
    <<";", "s", "c", "a", "l", "e", "_", "d", "a", "y", "=">> \o Dec(scale_day)
\* the tag ends with the given characters
EndsWith(tag, suffix) ==
    /\ Len(suffix) <= Len(tag)
    /\ SubSeq(tag, Len(tag) - Len(suffix) + 1, Len(tag)) = suffix

\* C26: for every limit order an Execute step places, the week_id recorded
\* in order_week_ids and in the tag is the engine's current_week_id at the
\* placement, the scale_day of the tag is the symbol's scale_day at the
\* placement (0 without a state), market_price_at_submit holds the market
\* price, and the new ticket is tracked with a check count of 0.
C26_PlacementRecords ==
    [][(pc = "execute" /\ pc' = "pipeline") =>
          \A id \in DOMAIN orders' \ DOMAIN orders :
              orders'[id].type = "Limit" =>
                  \E symbol \in {orders'[id].symbol}, tag \in {orders'[id].tag} :
                      /\ current_week_id # NoString
                      /\ id \in DOMAIN order_week_ids'
                      /\ order_week_ids'[id] = current_week_id
                      /\ extract_week_id_from_tag(tag) = current_week_id
                      /\ EndsWith(tag, ScaleDayField(
                                        IF symbol \in DOMAIN symbol_scale_state
                                        THEN symbol_scale_state[symbol].scale_day ELSE 0))
                      /\ id \in DOMAIN market_price_at_submit'
                      /\ market_price_at_submit'[id] = securities[symbol]
                      /\ id \in SeqToSet(open_limit_tickets')
                      /\ id \in DOMAIN limit_open_checks'
                      /\ limit_open_checks'[id] = 0]_vars
\* Execute has just placed a limit order on the second day of a scale-in:
\* its tag carries scale day 1 and the week id of the rebalance, which is
\* not today's date
C26_PlacedOnScaleDayOne ==
    /\ pc = "pipeline"
    /\ current_week_id # strftime(Calendar[today])
    /\ \E id \in SeqToSet(open_limit_tickets) :
           /\ orders[id].type = "Limit" /\ orders[id].status = "Submitted"
           /\ EndsWith(orders[id].tag, ScaleDayField(1))
           /\ symbol_scale_state[orders[id].symbol].scale_day = 1
           /\ order_week_ids[id] = current_week_id
           /\ limit_open_checks[id] = 0
           /\ market_price_at_submit[id] = securities[orders[id].symbol]

\* the engine's maps keyed by symbol
EngineMaps ==
    <<rolling_returns, prev_close, expected_prices, weekly_targets, previous_weekly_targets,
      signal_strengths, week_plan, symbol_scale_state, last_classifications>>

\* C27: after the removal of a symbol none of the engine's per-symbol
\* structures contains it (symbols, rolling_returns, prev_close,
\* expected_prices, weekly_targets, previous_weekly_targets,
\* signal_strengths, week_plan, symbol_scale_state, last_classifications),
\* and the entries of the other symbols are unchanged.
C27_AsStated ==
    [][\A sym \in Symbols :
          SecurityRemoved(sym) =>
              /\ symbols' = symbols \ {sym}
              /\ \A k \in 1..Len(EngineMaps) :
                     /\ sym \notin DOMAIN EngineMaps'[k]
                     /\ DOMAIN EngineMaps'[k] = DOMAIN EngineMaps[k] \ {sym}
                     /\ \A other \in DOMAIN EngineMaps'[k] :
                            EngineMaps'[k][other] = EngineMaps[k][other]]_vars

\* C28: a bar for a tracked symbol with no previous close only sets
\* prev_close; a bar for a symbol with a previous close puts
\* close / prev_close - 1 in front of its window, drops the oldest return
\* of a full window, and then sets prev_close; a day without a bar for the
\* symbol changes neither; no window is ever longer than vol_lookback.
C28_WindowUpdate ==
    [][/\ \A s \in DOMAIN rolling_returns : Len(rolling_returns[s]) <= vol_lookback
       /\ \A s \in DOMAIN rolling_returns' : Len(rolling_returns'[s]) <= vol_lookback
       /\ \A bars \in DayBars :
              OnData(bars) =>
                  \A s \in symbols :
                      \E window \in {rolling_returns[s]} :
                          IF s \notin DOMAIN bars
                          THEN /\ rolling_returns'[s] = window
                               /\ (s \in DOMAIN prev_close') = (s \in DOMAIN prev_close)
                               /\ s \in DOMAIN prev_close => prev_close'[s] = prev_close[s]
                          ELSE /\ prev_close'[s] = bars[s]
                               /\ IF s \notin DOMAIN prev_close
                                  THEN rolling_returns'[s] = window
                                  ELSE \E after \in {rolling_returns'[s]} :
                                           /\ Len(after) = (IF Len(window) < vol_lookback
                                                            THEN Len(window) + 1
                                                            ELSE vol_lookback)
                                           /\ after[1] = DailyReturn(bars[s], prev_close[s])
                                           /\ \A i \in 2..Len(after) : after[i] = window[i - 1]]_vars
\* after three dates: the new symbol has had three bars and holds two
\* returns; the other window was filled by its first bar, lost its oldest
\* return to the second and was left alone on the date without a bar
C28_FilledAndEvicted ==
    /\ today = 3 /\ pc = "data"
    /\ Len(rolling_returns["A"]) = 2
    /\ rolling_returns["A"][1] = DailyReturn(99, 101)
    /\ prev_close["A"] = 99
    /\ Len(rolling_returns["B"]) = vol_lookback
    /\ rolling_returns["B"][1] = DailyReturn(99, 101)
    /\ rolling_returns["B"][2] = DailyReturn(101, 100)
    /\ rolling_returns["B"][vol_lookback] = WindowsAtStart["B"][vol_lookback - 2]
    /\ prev_close["B"] = 99
    /\ "B" \in DOMAIN securities /\ securities["B"] = 99
\* the steps a transition adds to the steps of the date
AddedSteps == IF today' = today /\ Len(steps') >= Len(steps)
              THEN SubSeq(steps', Len(steps) + 1, Len(steps'))
              ELSE <<>>
C30_AsStated ==
    [][ (pc = "execute" /\ pc' = "pipeline" /\ DOMAIN orders' # DOMAIN orders) =>
            \A id \in TrackedOpen :
                ~LexLess(order_week_ids[id], current_week_id)
      ]_vars

\* the place of the last tick in its cycle: 0 on the rebalance, 1 on the
\* tick after it, and so on
CycleTick == trading_days_since_rebalance - 1
\* CreateTargets has just returned from a tick that got past its early returns
AfterTick == pc = "execute" /\ tick.kind \in {"rebalance", "scaling"}
\* C31: with rebalance_interval_trading_days >= scaling_days and
\* is_rebalance_day never set, a symbol classified NEW_ENTRY (and still in
\* the universe) gets on tick k of its cycle, for k = 0 .. scaling_days - 1,
\* exactly one instruction of weight weekly_target x schedule[k], and none
\* on a later tick of the cycle; the last fraction is 1.0; the cycle has
\* rebalance_interval_trading_days ticks, so at the next rebalance no symbol
\* is short of the last day of its schedule
C31_NewEntryScaleIn ==
    (rebalance_interval_trading_days >= scaling_days /\ AfterTick) =>
        /\ CycleTick < rebalance_interval_trading_days
        /\ \A s \in DOMAIN last_classifications :
               last_classifications[s] = "NEW_ENTRY" =>
                   \E schedule \in {get_scaling_schedule(signal_strengths[s])} :
                       /\ Len(schedule) = scaling_days
                       /\ schedule[scaling_days] = ROne
                       /\ IF CycleTick < scaling_days
                          THEN /\ Cardinality(InstructionsOf(s)) = 1
                               /\ \A i \in InstructionsOf(s) :
                                      targets[i].weight =
                                          RMul(weekly_targets[s], schedule[CycleTick + 1])
                          ELSE InstructionsOf(s) = {}
        /\ tick.kind = "rebalance" =>
               \A s \in DOMAIN tick.prior_state :
                   tick.prior_state[s].is_scaling =>
                       tick.prior_state[s].scale_day = scaling_days - 1
\* the last tick of a three-tick cycle: a new entry scaled in over three
\* days gets its full weight, the tick before the next rebalance
C31_FullWeightOnLastTick ==
    /\ AfterTick /\ tick.kind = "scaling"
    /\ scaling_days = 3 /\ rebalance_interval_trading_days = 3 /\ CycleTick = 2
    /\ \E s \in DOMAIN last_classifications :
           /\ last_classifications[s] = "NEW_ENTRY"
           /\ weekly_targets[s].n # 0
           /\ \E i \in InstructionsOf(s) : targets[i].weight = weekly_targets[s]

\* C32: a CreateTargets call with an active insight is a rebalance exactly
\* when the counter is unset (the first call), the counter has reached
\* rebalance_interval_trading_days, or is_rebalance_day is set (by the alpha
\* just before the call, or left set by it before a call without insights);
\* the call clears is_rebalance_day, sets the counter to 1 on a rebalance and
\* adds 1 to it otherwise, and the counter stays within 1 .. interval, so
\* without the flag interval - 1 ticks pass between two rebalances; a call
\* without insights leaves the counter and keeps the flag for the next call
C32_RebalanceTicks ==
    [][\A w \in AlphaWrites, i \in CycleInsightSets, h \in FewHoldingSets :
          CreateTargets(w, i, h) =>
              \E flag \in {w = "set" \/ (w = "none" /\ is_rebalance_day)} :
                  IF i = EmptyMap
                  THEN /\ is_rebalance_day' = flag
                       /\ tick'.kind = "early"
                       /\ UNCHANGED trading_days_since_rebalance
                  ELSE /\ tick'.kind = "rebalance" <=>
                              \/ flag
                              \/ trading_days_since_rebalance = NoCount
                              \/ trading_days_since_rebalance >= rebalance_interval_trading_days
                       /\ tick'.kind \in {"rebalance", "scaling"}
                       /\ is_rebalance_day' = FALSE
                       /\ trading_days_since_rebalance' =
                              (IF tick'.kind = "rebalance" THEN 1
                               ELSE trading_days_since_rebalance + 1)
                       /\ trading_days_since_rebalance' \in 1..rebalance_interval_trading_days
      ]_vars
\* a rebalance forced by the flag on the tick after a rebalance, two ticks
\* before the counter would have called for one
C32_ForcedOnSecondTick ==
    /\ AfterRebalance /\ rebalance_interval_trading_days = 3
    /\ Cardinality({k \in 1..Len(steps) : steps[k] = "CreateTargets"}) = 1
    /\ today = 2 /\ tick.prior_targets # EmptyMap
    /\ ~is_rebalance_day /\ trading_days_since_rebalance = 1

\* C33: in every state, so after every CreateTargets call from the first
\* rebalance on and after every universe removal, the symbols with a
\* ScaleState entry are the symbols of weekly_targets, and
\* previous_weekly_targets equals weekly_targets
C33_StateMatchesTargets ==
    /\ DOMAIN symbol_scale_state = DOMAIN weekly_targets
    /\ previous_weekly_targets = weekly_targets
\* after a second rebalance a symbol that had a target before it has left
\* the universe and has neither target nor ScaleState, while the other
\* symbol has both
C33_RemovedBesideTargeted ==
    /\ pc = "open" /\ tick.kind = "rebalance"
    /\ \E s \in Symbols \ DOMAIN securities :
           /\ s \in DOMAIN tick.prior_targets
           /\ s \notin DOMAIN symbol_scale_state \cup DOMAIN weekly_targets
    /\ weekly_targets # EmptyMap
    /\ DOMAIN symbol_scale_state = DOMAIN weekly_targets

\* C34: the instructions one CreateTargets call returns hold at most one
\* instruction per symbol, on rebalance and non-rebalance days alike
C34_OneInstructionPerSymbol ==
    \A s \in Symbols : Cardinality(InstructionsOf(s)) <= 1
\* a rebalance that flips one symbol, whose only instruction is the 0% one,
\* and enters another
C34_FlipBesideEntry ==
    /\ AfterRebalance
    /\ \E s, t \in DOMAIN last_classifications :
           /\ last_classifications[s] = "FLIP" /\ last_classifications[t] = "NEW_ENTRY"
           /\ s \in DOMAIN weekly_targets /\ weekly_targets[s].n # 0
           /\ \A i \in InstructionsOf(s) : targets[i].weight = RZero
           /\ Cardinality(InstructionsOf(s)) = 1
           /\ \E i \in InstructionsOf(t) : targets[i].weight.n # 0

\* C35: a CreateTargets call without an active insight returns no
\* instruction, leaves every field of the engine as the alpha left it (the
\* counter, ScaleState, weekly_targets, previous_weekly_targets,
\* current_week_id, week_plan, last_cancel_check_date, and is_rebalance_day
\* as written by the alpha), runs no cancellation pass and leaves the orders
\* and the execution bookkeeping alone
C35_NoInsightNoEffect ==
    [][\A w \in AlphaWrites, h \in FewHoldingSets :
          CreateTargets(w, EmptyMap, h) =>
              /\ targets' = <<>>
              /\ UNCHANGED <<cfgVars, returnVars, targetVars, expected_prices,
                             current_week_id, last_cancel_check_date>>
              /\ is_rebalance_day' = (CASE w = "set" -> TRUE
                                        [] w = "clear" -> FALSE
                                        [] OTHER -> is_rebalance_day)
              /\ UNCHANGED <<execVars, orders>>
              /\ AddedSteps = <<"CreateTargets">>
      ]_vars
\* a call without insights has returned on a date without an earlier pass,
\* with a symbol in scale-in and a tracked limit order open
C35_EarlyReturnWhileScaling ==
    /\ pc = "execute" /\ tick.kind = "early" /\ targets = <<>>
    /\ last_cancel_check_date # today
    /\ \E s \in DOMAIN symbol_scale_state : symbol_scale_state[s].is_scaling
    /\ TrackedOpen # {}

\* C36: current_week_id changes only in a rebalance tick of CreateTargets,
\* to the date of that tick, and never to a lexicographically smaller
\* string; after every step the recorded week_id of every tracked order is
\* less than or equal to current_week_id
C36_WeekIdMonotone ==
    [][ /\ current_week_id' # current_week_id =>
               /\ AddedSteps # <<>> /\ AddedSteps[1] = "CreateTargets"
               /\ tick'.kind = "rebalance"
               /\ current_week_id' = strftime(Calendar[today])
               /\ LexLess(current_week_id, current_week_id')
        /\ (AddedSteps # <<>> /\ AddedSteps[1] = "CreateTargets"
                /\ tick'.kind = "rebalance") =>
               current_week_id' = strftime(Calendar[today])
        /\ \A id \in DOMAIN order_week_ids' :
               /\ current_week_id' # NoString
               /\ ~LexLess(current_week_id', order_week_ids'[id])
      ]_vars
\* a rebalance in a later year than the one before it, with an order of the
\* earlier cycle still tracked
C36_NewYearRebalance ==
    /\ AfterRebalance /\ Calendar[today].y = 2024
    /\ \E id \in DOMAIN order_week_ids :
           /\ SubSeq(order_week_ids[id], 1, 4) = <<"2", "0", "2", "3">>
           /\ LexLess(order_week_ids[id], current_week_id)

\* C37: in every state limit_open_checks and order_week_ids hold entries
\* only for orders listed in open_limit_tickets, and every listed ticket
\* that was never sent a cancel request has an entry in both
C37_BookkeepingMatchesTickets ==
    /\ DOMAIN limit_open_checks \subseteq SeqToSet(open_limit_tickets)
    /\ DOMAIN order_week_ids \subseteq SeqToSet(open_limit_tickets)
    /\ \A id \in SeqToSet(open_limit_tickets) :
           orders[id].cancels = 0 =>
               id \in DOMAIN limit_open_checks \cap DOMAIN order_week_ids
\* a ticket cancelled by the check count is still listed, without entries,
\* beside a listed open ticket that has been checked once
C37_CancelledBesideChecked ==
    \E id, other \in SeqToSet(open_limit_tickets) :
        /\ orders[id].cancels = 1 /\ orders[id].status = "CancelPending"
        /\ id \notin DOMAIN limit_open_checks \cup DOMAIN order_week_ids
        /\ orders[other].status \in OpenStatuses
        /\ other \in DOMAIN order_week_ids
        /\ other \in DOMAIN limit_open_checks /\ limit_open_checks[other] = 1

\* C38: no order is ever sent more than one cancel request, whether by the
\* week-cycle rule, the check-count fallback or a universe removal, and
\* however long its Canceled event takes to arrive
C38_OneCancelRequest ==
    \A id \in DOMAIN orders : orders[id].cancels <= 1
\* after the pass of the fourth date an order placed on the first date is
\* still listed, CancelPending with one request, beside an order placed on
\* the second date that the passes of the third and fourth date have
\* counted out as well
C38_PendingThroughLaterPass ==
    /\ today = 4 /\ pc = "scheduled" /\ "cancel" \in SeqToSet(steps)
    /\ \E id, other \in SeqToSet(open_limit_tickets) :
           /\ extract_week_id_from_tag(orders[id].tag) = strftime(Calendar[1])
           /\ extract_week_id_from_tag(orders[other].tag) = strftime(Calendar[2])
           /\ orders[id].status = "CancelPending" /\ orders[id].cancels = 1
           /\ orders[other].status = "CancelPending" /\ orders[other].cancels = 1

\* C39: a market order is never listed in open_limit_tickets nor entered in
\* limit_open_checks or order_week_ids, and is never sent a cancel request;
\* the step that places it records its market_price_at_submit and nothing
\* else for it
C39_MarketOrderUntracked ==
    [][\A id \in DOMAIN orders' :
          orders'[id].type = "Market" =>
              /\ id \notin SeqToSet(open_limit_tickets')
              /\ id \notin DOMAIN limit_open_checks'
              /\ id \notin DOMAIN order_week_ids'
              /\ orders'[id].cancels = 0
              /\ id \notin DOMAIN orders =>
                     /\ id \in DOMAIN market_price_at_submit'
                     /\ market_price_at_submit'[id] = orders'[id].market_price]_vars
\* a market order and a limit order were placed on the first date; the
\* check count has cancelled the limit order, the symbol of the market
\* order has left the universe, and the market order is still Submitted
\* with no cancel request and its price on record
C39_ExitOutlivesPassAndRemoval ==
    \E m, l \in DOMAIN orders :
        /\ orders[m].type = "Market" /\ orders[l].type = "Limit"
        /\ extract_week_id_from_tag(orders[m].tag) = strftime(Calendar[1])
        /\ extract_week_id_from_tag(orders[l].tag) = strftime(Calendar[1])
        /\ orders[l].symbol \in DOMAIN securities
        /\ orders[l].status = "CancelPending" /\ orders[l].cancels = 1
        /\ orders[m].symbol \notin DOMAIN securities
        /\ orders[m].status = "Submitted" /\ orders[m].cancels = 0
        /\ m \in DOMAIN market_price_at_submit

\* C40: an order event of status Submitted or PartiallyFilled changes
\* nothing in the execution model's bookkeeping; a listed partially filled
\* order keeps its check count and the week_id of its tag, and the next
\* scheduled pass treats it by them: cancelled under the week-cycle rule
\* when its week_id is before current_week_id, and counted, then cancelled
\* at the limit, when there is no current_week_id
C40_PartialFillKeepsTracking ==
    [][\A id \in DOMAIN orders :
          /\ \A st \in {"Submitted", "PartiallyFilled"} :
                 HandleOrderEvent(id, st) => UNCHANGED execVars
          /\ (orders[id].status # "PartiallyFilled" /\ orders'[id].status = "PartiallyFilled")
                 => UNCHANGED execVars
          /\ (orders'[id].status = "PartiallyFilled" /\ id \in SeqToSet(open_limit_tickets'))
                 => /\ id \in DOMAIN limit_open_checks'
                    /\ id \in DOMAIN order_week_ids'
                    /\ order_week_ids'[id] = extract_week_id_from_tag(orders'[id].tag)
          /\ ( /\ pc = "open" /\ pc' = "scheduled"
               /\ orders[id].status = "PartiallyFilled"
               /\ id \in SeqToSet(open_limit_tickets) )
                 => IF current_week_id # NoString
                    THEN IF IsStale(order_week_ids[id], current_week_id)
                         THEN /\ orders'[id].cancels = orders[id].cancels + 1
                              /\ id \notin SeqToSet(open_limit_tickets')
                         ELSE /\ orders'[id] = orders[id]
                              /\ id \in SeqToSet(open_limit_tickets')
                              /\ limit_open_checks'[id] = limit_open_checks[id]
                    ELSE IF limit_open_checks[id] + 1 >= limit_cancel_after_open_checks
                         THEN orders'[id].cancels = orders[id].cancels + 1
                         ELSE /\ orders'[id] = orders[id]
                              /\ limit_open_checks'[id] = limit_open_checks[id] + 1]_vars
\* at the market open of the third date an order of the cycle of the first
\* date is listed, partially filled and not cancelled, while the current
\* cycle is the one of the second date
C40_PartialFillOfEarlierCycle ==
    /\ today = 3 /\ pc = "open"
    /\ current_week_id = strftime(Calendar[2])
    /\ \E id \in SeqToSet(open_limit_tickets) :
           /\ orders[id].status = "PartiallyFilled" /\ orders[id].cancels = 0
           /\ order_week_ids[id] = strftime(Calendar[1])
           /\ IsStale(order_week_ids[id], current_week_id)
====
